---- MODULE Spec2Model ----
(***************************************************************************)
(* Coverage-decision pipeline of the TG3 coverage checker.                 *)
(*                                                                         *)
(* Four handlers of /api/coverage are modelled side by side:               *)
(*   "part_001"      src/unnamed/part_001 (fanoutForRadio, queryAnyRadios  *)
(*                   as the fallback)                                      *)
(*   "coverage"      src/pages/api/coverage.js lines 1..236                *)
(*                   (ocidFanoutLTE, fccProvidersNear as the fallback)     *)
(*   "coverage_zip"  src/pages/api/coverage.js lines 239..360 (one box     *)
(*                   around the ZIP centroid)                              *)
(*   "part_000"      src/unnamed/part_000 lines 1..120 (owner names from a *)
(*                   tower search page)                                    *)
(*                                                                         *)
(* One behaviour is one request.  A step of the model runs the handler     *)
(* from one await to the next; every upstream answer is chosen by the      *)
(* environment.                                                            *)
(*                                                                         *)
(* Strings are sequences of tokens (a token is a TLA+ string); numbers     *)
(* that the code formats into strings are formatted digit by digit.        *)
(* Angles are integers in units of 1e-7 degree, so that toFixed(6) is a    *)
(* real rounding.                                                          *)
(***************************************************************************)
EXTENDS Integers, Sequences, FiniteSets, TLC

(***************************************************************************)
(* Generic helpers                                                         *)
(***************************************************************************)
Undef == -1                     \* a JSON field that is absent (undefined)

Range(s) == {s[i] : i \in DOMAIN s}

RECURSIVE SelectSeqP(_, _, _)
\* Array.prototype.filter with the predicate given as a set of accepted values
SelectSeqP(s, Ok, i) ==
  IF i > Len(s) THEN <<>>
  ELSE (IF s[i] \in Ok THEN <<s[i]>> ELSE <<>>) \o SelectSeqP(s, Ok, i + 1)

\* the positions of s whose element occurs at no earlier position, ascending
FirstPositions(s) ==
  SelectSeq([k \in DOMAIN s |-> k], LAMBDA k : \A j \in 1..(k - 1) : s[j] # s[k])

\* Array.from(new Set(s)): first occurrences, in insertion order
Uniq(s) == LET keep == FirstPositions(s) IN [n \in DOMAIN keep |-> s[keep[n]]]

DigitChar == <<"0", "1", "2", "3", "4", "5", "6", "7", "8", "9">>

RECURSIVE Digits(_)
\* String(n) for a non-negative integer n
Digits(n) ==
  IF n < 10 THEN <<DigitChar[n + 1]>>
  ELSE Digits(n \div 10) \o <<DigitChar[(n % 10) + 1]>>

RECURSIVE PadStart(_, _, _)
\* s.padStart(n, fill) for a one-character fill
PadStart(s, n, fill) ==
  IF Len(s) >= n THEN s ELSE PadStart(<<fill>> \o s, n, fill)

RECURSIVE Join(_, _)
\* Array.prototype.join of a list of strings
Join(list, sep) ==
  IF Len(list) = 0 THEN <<>>
  ELSE IF Len(list) = 1 THEN list[1]
  ELSE list[1] \o <<sep>> \o Join(Tail(list), sep)

IsSpace(tok) == tok = " "

RECURSIVE TrimStart(_)
TrimStart(s) ==
  IF Len(s) > 0 /\ IsSpace(Head(s)) THEN TrimStart(Tail(s)) ELSE s

RECURSIVE TrimEnd(_)
TrimEnd(s) ==
  IF Len(s) > 0 /\ IsSpace(s[Len(s)]) THEN TrimEnd(SubSeq(s, 1, Len(s) - 1)) ELSE s

\* String.prototype.trim
Trim(s) == TrimEnd(TrimStart(s))

\* String.prototype.toLowerCase, on the tokens the model uses
LowerTok(tok) ==
  CASE tok = "BBOX too big" -> "bbox too big"
    [] tok = "Error: "      -> "error: "
    [] tok = "Invalid key"  -> "invalid key"
    [] OTHER                -> tok

ToLowerCase(s) == [i \in DOMAIN s |-> LowerTok(s[i])]

\* s.includes(tok) for a needle that is one token
Includes(s, tok) == \E i \in DOMAIN s : s[i] = tok

\* Number.prototype.toFixed(6) of an angle held in units of 1e-7 degree:
\* the result is the angle in units of 1e-6 degree, rounded half away from 0
ToFixed6(x) == IF x >= 0 THEN (x + 5) \div 10 ELSE -(((-x) + 5) \div 10)

(***************************************************************************)
(* Reference data (data/*.json, loaded once at module load).  The files    *)
(* are data, not code: the tables below are a small sample with one row of *)
(* every shape buildAllowedSet and labelOperator distinguish.              *)
(***************************************************************************)
FLOLIVE ==
  << [IMSI_Provider |-> "EU 2", Operator |-> <<"T-Mobile">>],
     [IMSI_Provider |-> "US 2", Operator |-> <<" ", "Union Wireless", " ">>],
     [IMSI_Provider |-> "US 1", Operator |-> <<"AT&T">>],
     [IMSI_Provider |-> "EU 2", Operator |-> <<" ">>],
     [IMSI_Provider |-> "US 2", Operator |-> <<>>] >>

MCCMNC_MAP ==
  { << <<"3", "1", "0", "2", "6", "0">>, <<"T-Mobile">> >>,
    << <<"3", "1", "0", "4", "1", "0">>, <<"AT&T">> >>,
    << <<"3", "1", "0", "0", "2", "0">>, <<"Union Wireless">> >> }

RECURSIVE AllowedFrom(_, _)
AllowedFrom(rows, i) ==
  IF i > Len(rows) THEN {}
  ELSE LET row == rows[i]
           op  == Trim(row.Operator)
       IN  (IF row.IMSI_Provider \in {"EU 2", "US 2"} /\ op # <<>> THEN {op} ELSE {})
             \cup AllowedFrom(rows, i + 1)

buildAllowedSet == AllowedFrom(FLOLIVE, 1)

\* the key String(mcc) + String(mnc).padStart(3, "0")
MccMncKey(mcc, mnc) == Digits(mcc) \o PadStart(Digits(mnc), 3, "0")

\* MCCMNC_MAP[key]: the set holding the mapped name, empty when undefined
operatorFromMccMnc(mcc, mnc) ==
  {e[2] : e \in {m \in MCCMNC_MAP : m[1] = MccMncKey(mcc, mnc)}}

labelOperator(mcc, mnc) ==
  LET hit == operatorFromMccMnc(mcc, mnc)
  IN  IF hit # {} /\ (CHOOSE n \in hit : TRUE) # <<>>
      THEN CHOOSE n \in hit : TRUE
      ELSE <<"MCC">> \o Digits(mcc) \o <<"-MNC">> \o PadStart(Digits(mnc), 3, "0")

(***************************************************************************)
(* part_000 lines 1..120: owner names scraped from a tower search page.    *)
(* Lower-casing cuts a name into words and blanks, and includes() is a     *)
(* search for a run of words.                                              *)
(***************************************************************************)
\* String.prototype.toLowerCase of one token, cut into words and blanks
LowerWords(tok) ==
  CASE tok = "AT&T" -> <<"at&t">>
    [] tok = "T-Mobile" -> <<"t-mobile">>
    [] tok = "Verizon" -> <<"verizon">>
    [] tok = "Cellco" -> <<"cellco">>
    [] tok = "Union Wireless" -> <<"union", " ", "wireless">>
    [] tok = "Union Telephone" -> <<"union", " ", "telephone">>
    [] tok = "Alaska Wireless" -> <<"alaska", " ", "wireless">>
    [] tok = "Crown Castle" -> <<"crown", " ", "castle">>
    [] tok = " Wireless" -> <<" ", "wireless">>
    [] tok = " USA" -> <<" ", "usa">>
    [] tok = " Partnership" -> <<" ", "partnership">>
    [] tok = "Verizon Wireless tower lease notice for the parcel on the county road" -> <<"verizon", " ", "wireless", " ", "tower", " ", "lease", " ", "notice", " ", "for", " ", "the", " ", "parcel", " ", "on", " ", "the", " ", "county", " ", "road">>
    [] OTHER -> <<tok>>

RECURSIVE toLowerCase(_)
toLowerCase(s) == IF Len(s) = 0 THEN <<>> ELSE LowerWords(Head(s)) \o toLowerCase(Tail(s))

\* String.prototype.includes(key) on words
includes(text, key) ==
  \E k \in 0..(Len(text) - Len(key)) : SubSeq(text, k + 1, k + Len(key)) = key

\* NORMALIZE_MAP, in the order of Object.keys
NORMALIZE_MAP ==
  << <<<<"at&t">>, <<"AT&T">>>>,
     <<<<"att">>, <<"AT&T">>>>,
     <<<<"at&t", " ", "mobility">>, <<"AT&T">>>>,
     <<<<"new", " ", "cingular">>, <<"AT&T">>>>,
     <<<<"t-mobile">>, <<"T-Mobile">>>>,
     <<<<"tmobile">>, <<"T-Mobile">>>>,
     <<<<"t-mobile", " ", "usa">>, <<"T-Mobile">>>>,
     <<<<"verizon">>, <<"Verizon">>>>,
     <<<<"verizon", " ", "wireless">>, <<"Verizon">>>>,
     <<<<"cellco">>, <<"Verizon">>>>,
     <<<<"u.s.", " ", "cellular">>, <<"US Cellular">>>>,
     <<<<"us", " ", "cellular">>, <<"US Cellular">>>>,
     <<<<"united", " ", "states", " ", "cellular">>, <<"US Cellular">>>>,
     <<<<"united", " ", "states", " ", "cellular", " ", "corporation">>, <<"US Cellular">>>>,
     <<<<"liberty", " ", "puerto", " ", "rico">>, <<"Liberty Puerto Rico">>>>,
     <<<<"union", " ", "wireless">>, <<"Union Wireless">>>>,
     <<<<"union", " ", "telephone">>, <<"Union Wireless">>>>,
     <<<<"appalachian">>, <<"Appalachian">>>>,
     <<<<"carolina", " ", "west">>, <<"Carolina West">>>>,
     <<<<"james", " ", "valley">>, <<"James Valley">>>>,
     <<<<"nex-tech">>, <<"Nex-Tech">>>>,
     <<<<"nex", " ", "tech">>, <<"Nex-Tech">>>>,
     <<<<"united", " ", "wireless">>, <<"United Wireless">>>>,
     <<<<"viaero">>, <<"Viaero">>>>,
     <<<<"c-spire">>, <<"C-Spire">>>>,
     <<<<"c", " ", "spire">>, <<"C-Spire">>>>,
     <<<<"the", " ", "alaska", " ", "wireless">>, <<"The Alaska Wireless">>>> >>

\* normalize(name): the value of the first key the lower-cased name includes,
\* else the trimmed name
normalize(name) ==
  LET t    == toLowerCase(name)
      hits == {k \in DOMAIN NORMALIZE_MAP : includes(t, NORMALIZE_MAP[k][1])}
  IN  IF hits # {}
      THEN NORMALIZE_MAP[CHOOSE k \in hits : \A j \in hits : k <= j][2]
      ELSE Trim(name)

\* buildAllowedSet of part_000: allowed.add(normalize(row.Operator))
buildAllowedSetNormalized ==
  {normalize(FLOLIVE[k].Operator) :
     k \in {j \in DOMAIN FLOLIVE : FLOLIVE[j].IMSI_Provider \in {"EU 2", "US 2"}}}

HINTS ==
  << <<"verizon">>,
     <<"t-mobile">>,
     <<"tmobile">>,
     <<"at&t">>,
     <<"cingular">>,
     <<"cellco">>,
     <<"us", " ", "cellular">>,
     <<"liberty", " ", "puerto", " ", "rico">>,
     <<"union">>,
     <<"appalachian">>,
     <<"carolina", " ", "west">>,
     <<"james", " ", "valley">>,
     <<"nex-tech">>,
     <<"viaero">>,
     <<"c-spire">>,
     <<"united", " ", "wireless">>,
     <<"alaska", " ", "wireless">> >>

\* the number of characters of a token
TokLen(tok) ==
  CASE tok = "AT&T" -> 4
    [] tok = "T-Mobile" -> 8
    [] tok = "Verizon" -> 7
    [] tok = "Cellco" -> 6
    [] tok = "Union Wireless" -> 14
    [] tok = "Union Telephone" -> 15
    [] tok = "Alaska Wireless" -> 15
    [] tok = "Crown Castle" -> 12
    [] tok = " Wireless" -> 9
    [] tok = " USA" -> 4
    [] tok = " Partnership" -> 12
    [] tok = "Verizon Wireless tower lease notice for the parcel on the county road" -> 69
    [] OTHER -> 1

RECURSIVE Length(_)
\* String.prototype.length
Length(s) == IF Len(s) = 0 THEN 0 ELSE TokLen(Head(s)) + Length(Tail(s))

\* /[a-z]/.test(lower)
HasLowerLetter(lower) ==
  \E k \in DOMAIN lower : lower[k] \notin (Range(DigitChar) \cup {" ", "-", ".", ",", "&"})

\* fetchTowerOwnersForZip after the page is loaded: the texts of the table
\* cells become candidates (trimmed, not empty, with a letter, at most 60
\* characters, first occurrences), the candidates with a hint are the owners
Owners(texts) ==
  LET trimmed    == [k \in DOMAIN texts |-> Trim(texts[k])]
      candidates == Uniq(SelectSeq(trimmed, LAMBDA txt :
                      /\ txt # <<>>
                      /\ HasLowerLetter(toLowerCase(txt))
                      /\ Length(txt) <= 60))
  IN  SelectSeq(candidates, LAMBDA c :
        \E h \in DOMAIN HINTS : includes(toLowerCase(c), HINTS[h]))

(***************************************************************************)
(* Request parsing                                                         *)
(***************************************************************************)
IsDigit(tok) == tok \in Range(DigitChar)

DigitVal(tok) == (CHOOSE k \in 1..10 : DigitChar[k] = tok) - 1

\* mutated test: any run of digits is taken for a ZIP
ZipOkAnyDigits(zip) == Len(zip) > 0 /\ \A k \in DOMAIN zip : IsDigit(zip[k])

\* /^\d{5}(-\d{4})?$/.test(zip)
ZipOk(zip) ==
  \/ /\ Len(zip) = 5
     /\ \A k \in 1..5 : IsDigit(zip[k])
  \/ /\ Len(zip) = 10
     /\ \A k \in 1..5 : IsDigit(zip[k])
     /\ zip[6] = "-"
     /\ \A k \in 7..10 : IsDigit(zip[k])

\* JavaScript numbers, as far as the handlers tell them apart
NaN == [kind |-> "NaN", v |-> 0]
Infinity == [kind |-> "Infinity", v |-> 1]
Num(x) == [kind |-> "num", v |-> x]

\* the scale of an angle: 1 degree = 10^7 units
Scale == 10 * 1000 * 1000

RECURSIVE Pow10(_)
Pow10(n) == IF n = 0 THEN 1 ELSE 10 * Pow10(n - 1)

\* Number.prototype.toFixed(6) of a JavaScript number
toFixed6(x) == IF x.kind = "num" THEN [kind |-> "num", v |-> ToFixed6(x.v)] ELSE x

RECURSIVE ParseInt(_, _, _)
\* the longest run of digits of s from position k: [value, next position]
ParseInt(s, k, acc) ==
  IF k <= Len(s) /\ IsDigit(s[k]) THEN ParseInt(s, k + 1, 10 * acc + DigitVal(s[k]))
  ELSE [v |-> acc, next |-> k]

RECURSIVE ParseFrac(_, _, _, _)
\* the fraction digits of s from position k, kept to 7 places
ParseFrac(s, k, acc, places) ==
  IF k <= Len(s) /\ IsDigit(s[k])
  THEN IF places < 7 THEN ParseFrac(s, k + 1, 10 * acc + DigitVal(s[k]), places + 1)
       ELSE ParseFrac(s, k + 1, acc, places)
  ELSE [v |-> acc * Pow10(7 - places), next |-> k, places |-> places]

\* parseFloat(s): leading blanks, a sign, then Infinity or digits[.digits];
\* what follows the longest numeric prefix is ignored; no prefix gives NaN
parseFloat(s) ==
  LET t    == TrimStart(s)
      neg  == Len(t) > 0 /\ t[1] = "-"
      k0   == IF Len(t) > 0 /\ t[1] \in {"-", "+"} THEN 2 ELSE 1
      int  == ParseInt(t, k0, 0)
      dot  == int.next <= Len(t) /\ t[int.next] = "."
      frac == IF dot THEN ParseFrac(t, int.next + 1, 0, 0)
              ELSE [v |-> 0, next |-> int.next, places |-> 0]
      mag  == int.v * Scale + frac.v
  IN  IF k0 <= Len(t) /\ t[k0] = "Infinity"
      THEN [kind |-> "Infinity", v |-> IF neg THEN -1 ELSE 1]
      ELSE IF int.next = k0 /\ frac.places = 0 THEN NaN
      ELSE Num(IF neg THEN -mag ELSE mag)

IsNaN(x) == x.kind = "NaN"

IsFinite(x) == x.kind = "num"

\* x + n for a JavaScript number x and a finite n
Plus(x, n) == IF x.kind = "num" THEN Num(x.v + n) ELSE x

(***************************************************************************)
(* Parameters of the variants                                              *)
(***************************************************************************)
Variants == {"part_001", "coverage", "coverage_zip", "part_000"}

\* the handlers that sample the area with the ring fan-out
FanoutVariants == {"part_001", "coverage"}

\* coverage.js line 286: the half-width of the single box of queryOpenCellIdLTE
bboxD == 450000                 \* 0.045 degree

boxD == 80000                   \* 0.008 degree
minD == 40000                   \* 0.004 degree
MaxAttempts == 6                \* for (let i = 0; i < 6; i++)

maxR(v) == IF v = "part_001" THEN 8 ELSE 6

hardCap(v) == IF v = "part_001" THEN 120 ELSE 80

\* mutated threshold: the center box is tested against the threshold of the rings
centerThresholdOfRings(v) == IF v = "part_001" THEN 100 ELSE 80

\* all.length threshold tested after the center box
centerThreshold(v) == IF v = "part_001" THEN 80 ELSE 60

\* all.length threshold tested after every border box
ringThreshold(v) == IF v = "part_001" THEN 100 ELSE 80

\* mutated list: LTE is scanned before NR
radiosLteFirst == <<"LTE", "NR", "UMTS", "WCDMA", "GSM", "CDMA">>

\* ["NR", "LTE", "UMTS", "WCDMA", "GSM", "CDMA"]
radios == <<"NR", "LTE", "UMTS", "WCDMA", "GSM", "CDMA">>

(***************************************************************************)
(* Ring offsets                                                            *)
(***************************************************************************)
\* top & bottom rows: for x = -r..r push [dyMin*boxD, x*boxD], [dyMax*boxD, x*boxD]
RECURSIVE RowOffsets(_, _)
RowOffsets(r, x) ==
  IF x > r THEN <<>>
  ELSE << <<(-r) * boxD, x * boxD>>, <<r * boxD, x * boxD>> >> \o RowOffsets(r, x + 1)

\* mutated columns: the corners, already pushed with the rows, are pushed again
ColOffsetsWithCorners(r, y) ==
  LET n == r - y + 2
  IN  [k \in 1..(2 * n) |->
         <<(y - 1 + ((k - 1) \div 2)) * boxD, (IF k % 2 = 1 THEN -r ELSE r) * boxD>>]

\* left & right columns: for y = -r+1..r-1 push [y*boxD, dxMin*boxD], [y*boxD, dxMax*boxD]
RECURSIVE ColOffsets(_, _)
ColOffsets(r, y) ==
  IF y > r - 1 THEN <<>>
  ELSE << <<y * boxD, (-r) * boxD>>, <<y * boxD, r * boxD>> >> \o ColOffsets(r, y + 1)

\* the offsets list of ring r (ring 0 is the center)
Offsets(r) ==
  IF r = 0 THEN << <<0, 0>> >>
  ELSE RowOffsets(r, -r) \o ColOffsets(r, (-r) + 1)

(***************************************************************************)
(* One box request                                                         *)
(***************************************************************************)
\* the BBOX parameter: minLat,minLon,maxLat,maxLon with 6 decimals
Bbox(lat, lon, d) ==
  <<toFixed6(Plus(lat, -d)), toFixed6(Plus(lon, -d)),
    toFixed6(Plus(lat, d)), toFixed6(Plus(lon, d))>>

\* mutated shrink: the floor is not applied
ShrinkNoFloor(d) == d \div 2

\* d = Math.max(minD, d / 2)
Shrink(d) == IF d \div 2 > minD THEN d \div 2 ELSE minD

\* data?.error && String(data.error).toLowerCase().includes("bbox too big")
IsTooBig(data) ==
  /\ data.kind = "object"
  /\ data.error # <<>>
  /\ Includes(ToLowerCase(data.error), "bbox too big")

\* Array.isArray(data?.cells) ? data.cells : Array.isArray(data) ? data : []
CellsOf(data) ==
  IF data.kind = "object" /\ data.cells.isArray THEN data.cells.items
  ELSE IF data.kind = "array" THEN data.items
  ELSE <<>>

Null == [isNull |-> TRUE]

\* .filter(c => c && c.mcc !== undefined && c.mnc !== undefined).map(c => ({...c, radio}))
FilterMap(cells, radio) ==
  LET kept == SelectSeq(cells, LAMBDA c : c # Null /\ c.mcc # Undef /\ c.mnc # Undef)
  IN  [k \in DOMAIN kept |->
         [mcc |-> kept[k].mcc, mnc |-> kept[k].mnc, cid |-> kept[k].cid,
          cellid |-> kept[k].cellid, radio |-> radio]]

(***************************************************************************)
(* Deduplication                                                           *)
(***************************************************************************)
\* c.cid ?? c.cellid ?? "", as it is formatted into the id
CellIdStr(c) ==
  IF c.cid # Undef THEN Digits(c.cid)
  ELSE IF c.cellid # Undef THEN Digits(c.cellid)
  ELSE <<>>

\* `${c.mcc}-${String(c.mnc).padStart(3,"0")}-${cid}-${radio}`
DedupId(c, radio) ==
  Digits(c.mcc) \o <<"-">> \o PadStart(Digits(c.mnc), 3, "0") \o <<"-">>
    \o CellIdStr(c) \o <<"-">> \o <<radio>>

\* for (const c of cells) { ...; if (!seen.has(id)) { seen.add(id); all.push(c); } }
\* a cell is pushed when its id is not in seen on entry and no earlier cell of
\* the box has the id
Merge(cells, radio, seenSet, allList) ==
  LET ids  == [k \in DOMAIN cells |-> DedupId(cells[k], radio)]
      keep == SelectSeq(FirstPositions(ids), LAMBDA k : ids[k] \notin seenSet)
  IN  [seen |-> seenSet \cup Range(ids),
       all  |-> allList \o [n \in DOMAIN keep |-> cells[keep[n]]]]

(***************************************************************************)
(* State of one request                                                    *)
(***************************************************************************)
VARIABLES
  variant,      \* which handler serves the request
  req,          \* req.query: zip, lat, lon (an absent parameter is the empty string)
  hasKey,       \* process.env.OPENCELLID_API_KEY is set
  pc,           \* where the handler is: the await it is suspended at
  geo,          \* { lat, lon, place }
  phase,        \* "primary": queryLTE / ocidFanoutLTE;  "any": queryAnyRadios
  radioIdx,     \* queryAnyRadios: index of the technology being scanned
  radio,        \* fan-out: the radio of the running fan-out
  seen,         \* fan-out: Set of dedup ids
  all,          \* fan-out: the result list
  calls,        \* fan-out: number of box queries issued
  r,            \* fan-out: ring of the box being queried
  idx,          \* fan-out: position of that box in the ring's offsets
  batches,      \* fan-out: number of boxes queried so far in each batch (ring)
  d,            \* fetchOpenCellIdBox: current half-width
  i,            \* fetchOpenCellIdBox: loop index (attempts answered area-too-large)
  ds,           \* fetchOpenCellIdBox: half-widths of the requests sent by this call
  sent,         \* the upstream request in flight (or the last one answered)
  lastReply,    \* kind of the last upstream answer to a box request
  cells,        \* value returned by the last fetchOpenCellIdBox call
  lteCells,     \* handler: result of the primary fan-out
  anyCells,     \* queryAnyRadios: accumulated records
  fallback,     \* the fallback lookup the handler has started, if any
  response,     \* what res.status(..).json(..) was called with
  inFlight,     \* number of upstream calls issued and not yet completed
  replay,       \* the calls and answers of this request and of the one before
                \* it, where the same request is served twice
  page,         \* the state of the page that shows the check to the user
  world         \* the upstream: "any" answers anything, "empty" has no towers,
                \* "dense" answers every box query with a list of LTE towers,
                \* "rejected" answers every box query with an error payload,
                \* "replay" answers a repeated request as it answered the
                \* first, "concurrent" does so for two requests served at once

vars == <<variant, req, hasKey, pc, geo, phase, radioIdx, radio, seen, all, calls,
          r, idx, batches, d, i, ds, sent, lastReply, cells, lteCells, anyCells,
          fallback, response, inFlight, replay, page, world>>

fanVars == <<radio, seen, all, calls, r, idx, batches>>

boxVars == <<d, i, ds, sent, lastReply, cells>>

NoGeo == [lat |-> NaN, lon |-> NaN, place |-> <<>>]

NoRequest == [kind |-> "none"]

NoResponse == [status |-> 0]

\* nothing is recorded about the calls of a request
NoReplay == [run |-> 0]

\* the page is not part of the run
NoPage == [shown |-> FALSE]

(***************************************************************************)
(* Requests                                                                *)
(***************************************************************************)
Query(zip, lat, lon) == [zip |-> zip, lat |-> lat, lon |-> lon]

\* the request that is explored against every upstream behaviour
ReferenceRequest == Query(<<"0", "2", "1", "3", "9">>, <<>>, <<>>)

Requests ==
  { ReferenceRequest,
    Query(<<" ", "0", "2", "1", "3", "9", "-", "1", "2", "3", "4", " ">>, <<"4", "0">>, <<>>),
    Query(<<"a", "b", "c">>, <<>>, <<>>),
    Query(<<"1", "2", "3">>, <<>>, <<>>),
    Query(<<>>, <<>>, <<>>),
    Query(<<>>, <<"4", "0", ".", "7", "1", "2", "8">>, <<"-", "7", "4", ".", "0", "0", "6">>),
    Query(<<"0", "2", "1", "3", "9">>, <<"a", "b", "c">>, <<"1">>),
    Query(<<>>, <<"Infinity">>, <<"-", "7", "4">>) }

(***************************************************************************)
(* Upstream answers                                                        *)
(***************************************************************************)
\* api.zippopotam.us: the call rejects, or resolves with a status and a body
GeocodeReplies ==
  { [kind |-> "reject", status |-> 0, json |-> FALSE, places |-> <<>>],
    [kind |-> "ok", status |-> 404, json |-> TRUE, places |-> <<>>],
    [kind |-> "ok", status |-> 200, json |-> FALSE, places |-> <<>>],
    [kind |-> "ok", status |-> 200, json |-> TRUE, places |-> <<>>],
    [kind |-> "ok", status |-> 200, json |-> TRUE,
     places |-> << [latitude |-> <<"4", "2", ".", "3", "6", "4", "6">>,
                    longitude |-> <<"-", "7", "1", ".", "1", "0", "2", "8", "5", "5", "5">>,
                    placeName |-> "Cambridge", state |-> "MA"] >>] }

Cell(mcc, mnc, cid, cellid) == [mcc |-> mcc, mnc |-> mnc, cid |-> cid, cellid |-> cellid]

\* LTE records of operators outside the allowed set: a repeated cell, the same
\* cell under the other identifier field, an unmapped network, a record
\* without a network code and a null entry
CellsNotAllowed ==
  << Cell(310, 410, 1, Undef), Cell(310, 410, 1, Undef), Cell(310, 410, Undef, 1),
     Cell(311, 480, Undef, Undef), Cell(310, Undef, 2, Undef), Null >>

\* LTE records of allowed operators
CellsAllowed ==
  << Cell(310, 260, 7, Undef), Cell(310, 20, Undef, 7), Cell(310, 260, 7, Undef) >>

\* the outermost ring whose first box can be dense
DenseRing == 1

\* cells lo..hi of one operator
Bulk(lo, hi) == [k \in 1..(hi - lo + 1) |-> Cell(310, 410, lo + k - 1, Undef)]

\* what a box can hold during the primary fan-out: nothing or a few cells; the
\* center box and its first neighbour can be dense enough to reach the
\* threshold that is tested after them
PrimaryCells(v, rr, k) ==
  { <<>>, CellsNotAllowed, CellsAllowed }
    \cup (IF rr = 0 THEN { Bulk(101, 100 + centerThreshold(v)) } ELSE {})
    \cup (IF rr \in 1..DenseRing /\ k = 1 THEN { Bulk(101, 100 + ringThreshold(v)) } ELSE {})

\* what a box can hold during the scan of all technologies: towers of two of
\* the technologies exist
AnyCellsOf(rd) ==
  { <<>> }
    \cup (IF rd = "LTE" THEN { << Cell(310, 260, 7, Undef) >> } ELSE {})
    \cup (IF rd = "GSM" THEN { << Cell(311, 480, Undef, Undef), Cell(310, 410, 1, Undef) >> }
          ELSE {})

\* what a box can hold where towers are dense: the center box and its first
\* two neighbours hold nothing or one of four blocks of 60, 20, 80 and 20
\* cells (the third is the first two together), the boxes further out nothing
DenseCells(rr, k) ==
  IF rr = 0 \/ (rr = 1 /\ k <= 2)
  THEN { <<>>, Bulk(101, 160), Bulk(161, 180), Bulk(101, 180), Bulk(181, 200) }
  ELSE { <<>> }

\* what a box can hold where the same request is served twice: towers in the
\* center box only (and only the first request of all can fail); where it is
\* served by two handlers at once, the boxes around the center are dense
ReplayCells(v, ph, rd, rr) ==
  IF rr # 0 THEN (IF world = "concurrent" THEN { Bulk(101, 200) } ELSE { <<>> })
  ELSE IF ph = "primary" THEN PrimaryCells(v, 0, 1)
  ELSE AnyCellsOf(rd)

NotArray == [isArray |-> FALSE, items |-> <<>>]

\* the error payload of an upstream that does not accept the key
InvalidKey == [kind |-> "object", error |-> <<"Invalid key">>, cells |-> NotArray]

\* www.opencellid.org/cell/getInArea: the call rejects, or resolves with a body
BoxReplies(cellSets) ==
  { [kind |-> "reject"],
    [kind |-> "text"],
    [kind |-> "null"],
    [kind |-> "object", error |-> <<"Error: ", "BBOX too big">>, cells |-> NotArray],
    [kind |-> "object", error |-> <<"Invalid key">>, cells |-> NotArray],
    [kind |-> "object", error |-> <<>>, cells |-> NotArray] }
  \cup { [kind |-> "object", error |-> <<>>, cells |-> [isArray |-> TRUE, items |-> cs]] :
           cs \in cellSets }
  \cup { [kind |-> "array", items |-> cs] : cs \in cellSets }

(***************************************************************************)
(* Initial state: a request has arrived                                    *)
(***************************************************************************)
\* the handler is entered: nothing is computed, called or sent yet
Entered ==
  /\ pc = "start"
  /\ geo = NoGeo
  /\ phase = "primary"
  /\ radioIdx = 0
  /\ radio = "LTE"
  /\ seen = {}
  /\ all = <<>>
  /\ calls = 0
  /\ r = 0
  /\ idx = 0
  /\ batches = <<>>
  /\ d = boxD
  /\ i = 0
  /\ ds = <<>>
  /\ sent = NoRequest
  /\ lastReply = "none"
  /\ cells = <<>>
  /\ lteCells = <<>>
  /\ anyCells = <<>>
  /\ fallback = "none"
  /\ response = NoResponse
  /\ inFlight = 0

Init ==
  /\ variant \in Variants
  /\ req \in Requests
  /\ world \in {"any", "empty", "dense", "rejected"}
  /\ world # "empty" => req = ReferenceRequest
  /\ hasKey \in BOOLEAN
  /\ replay = NoReplay
  /\ page = NoPage
  /\ Entered

(***************************************************************************)
(* Building blocks of the actions                                          *)
(***************************************************************************)
\* the positions at which the handler is suspended in `await request(url)`
Awaiting == {"geocode", "box", "fcc", "bbox", "scrape"}

\* the calls in flight after a step that leaves the handler at position label:
\* a step that ends in an await has issued one call
Issued(n, label) == IF label \in Awaiting THEN n + 1 ELSE n

\* mutated await: the handler goes on while the call is still in flight
NotAwaited(n) == n

\* await: the handler resumes when the call it waits for has completed
Awaited(n) == n - 1

\* the record of the calls of a request after a step that received no answer:
\* a call the step issued is appended
Asked(rp, newPc, newSent) ==
  IF rp.run = 0 THEN rp
  ELSE [rp EXCEPT !.log = IF newPc \in Awaiting THEN Append(@, newSent) ELSE @]

\* the record after a step that received the answer of a call
Answered(rp, reply, newPc, newSent) ==
  IF rp.run = 0 THEN rp
  ELSE [Asked(rp, newPc, newSent) EXCEPT !.answers = Append(@, reply)]

\* mutated response: the handler does not return after res.status(..).json(..)
RespondAndGoOn(code, body) ==
  /\ response' = [status |-> code, body |-> body]
  /\ pc' = pc

\* res.status(code).json(body), after which the handler returns
Respond(code, body) ==
  /\ response' = [status |-> code, body |-> body]
  /\ pc' = "done"

\* an exception reaches the handler's catch: res.status(502).json({ error: e.message })
Throw(message) == Respond(502, [error |-> message])

\* the GET request of one attempt of fetchOpenCellIdBox
BoxRequest(g, rr, k, dd, rd) ==
  LET off == Offsets(rr)[k]
  IN  [kind |-> "box", radio |-> rd, d |-> dd,
       bbox |-> Bbox(Plus(g.lat, off[1]), Plus(g.lon, off[2]), dd)]

\* mutated guard: the ceiling is tested one call too late
CapReachedLate(v, n) == n > hardCap(v)

\* calls >= hardCap
CapReached(v, n) == n >= hardCap(v)

\* mutated loop: the fan-out does not advance, it counts no call and queries
\* the box it has just queried
QueryBoxSameAgain(g, rr, k, rd) ==
  /\ UNCHANGED <<calls, r, idx, batches>>
  /\ d' = boxD
  /\ i' = 0
  /\ ds' = <<boxD>>
  /\ sent' = BoxRequest(g, r, idx, boxD, rd)
  /\ lastReply' = "none"
  /\ pc' = "box"

\* calls++ and the first attempt of fetchOpenCellIdBox for box k of ring rr
QueryBox(g, rr, k, rd) ==
  /\ calls' = calls + 1
  /\ r' = rr
  /\ idx' = k
  /\ batches' = IF k = 1 THEN Append(batches, 1)
                ELSE [batches EXCEPT ![Len(batches)] = @ + 1]
  /\ d' = boxD
  /\ i' = 0
  /\ ds' = <<boxD>>
  /\ sent' = BoxRequest(g, rr, k, boxD, rd)
  /\ lastReply' = "none"
  /\ pc' = "box"

\* the fan-out returns its list to the caller
FanoutReturns ==
  /\ pc' = "fanout_done"
  /\ UNCHANGED <<calls, r, idx, batches, d, i, ds, sent, lastReply>>

\* mutated entry: seen is one set of the module, which the handler of another
\* request has filled
StartFanoutSeenOfModule(g, rd) ==
  /\ radio' = rd
  /\ seen' = IF replay.run = 2 THEN replay.other.locals.seen ELSE {}
  /\ all' = <<>>
  /\ cells' = <<>>
  /\ lastReply' = "none"
  /\ calls' = 1
  /\ r' = 0
  /\ idx' = 1
  /\ batches' = <<1>>
  /\ d' = boxD
  /\ i' = 0
  /\ ds' = <<boxD>>
  /\ sent' = BoxRequest(g, 0, 1, boxD, rd)
  /\ pc' = "box"

\* mutated entry: seen is shared by all fan-outs instead of created by each
StartFanoutSharesSeen(g, rd) ==
  /\ radio' = rd
  /\ seen' = seen
  /\ all' = <<>>
  /\ cells' = <<>>
  /\ lastReply' = "none"
  /\ calls' = 1
  /\ r' = 0
  /\ idx' = 1
  /\ batches' = <<1>>
  /\ d' = boxD
  /\ i' = 0
  /\ ds' = <<boxD>>
  /\ sent' = BoxRequest(g, 0, 1, boxD, rd)
  /\ pc' = "box"

\* entry of fanoutForRadio / ocidFanoutLTE up to the first await: fresh seen,
\* all and calls, then the center box (part_001 tests the ceiling first)
StartFanout(g, rd) ==
  /\ radio' = rd
  /\ seen' = {}
  /\ all' = <<>>
  /\ cells' = <<>>
  /\ lastReply' = "none"
  /\ IF variant = "part_001" /\ CapReached(variant, 0)
     THEN /\ pc' = "fanout_done"
          /\ calls' = 0 /\ r' = 0 /\ idx' = 0 /\ batches' = <<>>
          /\ UNCHANGED <<d, i, ds, sent>>
     ELSE /\ calls' = 1
          /\ r' = 0
          /\ idx' = 1
          /\ batches' = <<1>>
          /\ d' = boxD
          /\ i' = 0
          /\ ds' = <<boxD>>
          /\ sent' = BoxRequest(g, 0, 1, boxD, rd)
          /\ pc' = "box"

\* queryLTE / ocidFanoutLTE: the key is required, then the LTE fan-out runs
QueryLTE(g) ==
  IF ~hasKey
  THEN /\ Throw(<<"Server missing OPENCELLID_API_KEY">>)
       /\ UNCHANGED <<fanVars, boxVars>>
  ELSE /\ StartFanout(g, "LTE")
       /\ UNCHANGED response

\* queryOpenCellIdLTE (coverage.js lines 281-300): the key is required, then
\* one box of half-width 0.045 around the centroid is requested
QueryOpenCellIdLTE(g) ==
  IF ~hasKey
  THEN /\ Throw(<<"Server missing OPENCELLID_API_KEY">>)
       /\ UNCHANGED <<fanVars, boxVars>>
  ELSE /\ sent' = [kind |-> "box", radio |-> "LTE", d |-> bboxD,
                   bbox |-> Bbox(g.lat, g.lon, bboxD)]
       /\ pc' = "bbox"
       /\ UNCHANGED <<fanVars, d, i, ds, lastReply, cells, response>>

\* the GET request of fetchTowerOwnersForZip
PageRequest(zip) == [kind |-> "page", zip |-> zip]

(***************************************************************************)
(* The handler, from its entry to its first await                          *)
(***************************************************************************)
GeocodeRequest(zip) == [kind |-> "geocode", zip |-> zip]

HandleRequest ==
  /\ pc = "start"
  /\ UNCHANGED <<world, variant, req, hasKey, phase, radioIdx, lteCells, anyCells, fallback>>
  /\ LET hasLatLon == req.lat # <<>> /\ req.lon # <<>>
         lat == parseFloat(req.lat)
         lon == parseFloat(req.lon)
         zip == Trim(req.zip)
         custom == [lat |-> lat, lon |-> lon, place |-> <<"custom point">>]
     IN  IF variant \notin FanoutVariants
         THEN \* the handlers that take a ZIP only
              IF ~ZipOk(zip)
              THEN /\ Respond(400, [error |-> <<"Please provide a valid US ZIP (5 digits).">>])
                   /\ UNCHANGED <<geo, fanVars, boxVars>>
              ELSE /\ sent' = IF variant = "part_000" THEN PageRequest(zip)
                              ELSE GeocodeRequest(zip)
                   /\ pc' = IF variant = "part_000" THEN "scrape" ELSE "geocode"
                   /\ UNCHANGED <<geo, fanVars, d, i, ds, lastReply, cells, response>>
         ELSE IF hasLatLon
         THEN IF variant = "part_001"
              THEN IF IsNaN(lat) \/ IsNaN(lon)
                   THEN /\ Respond(400, [error |-> <<"Invalid lat/lon.">>])
                        /\ UNCHANGED <<geo, fanVars, boxVars>>
                   ELSE /\ geo' = custom
                        /\ QueryLTE(custom)
              ELSE IF ~IsFinite(lat) \/ ~IsFinite(lon)
                   THEN /\ Throw(<<"Invalid lat/lon.">>)
                        /\ UNCHANGED <<geo, fanVars, boxVars>>
                   ELSE /\ geo' = custom
                        /\ QueryLTE(custom)
         ELSE IF ~ZipOk(zip)
              THEN /\ IF variant = "part_001"
                      THEN Respond(400, [error |->
                             <<"Please provide a valid US ZIP (5 digits) or lat/lon.">>])
                      ELSE Throw(<<"Please provide a valid US ZIP (5 digits) or lat/lon.">>)
                   /\ UNCHANGED <<geo, fanVars, boxVars>>
              ELSE /\ sent' = GeocodeRequest(zip)
                   /\ pc' = "geocode"
                   /\ UNCHANGED <<geo, fanVars, d, i, ds, lastReply, cells, response>>
  /\ inFlight' = Issued(inFlight, pc')
  /\ replay' = Asked(replay, pc', sent')
  /\ UNCHANGED page

(***************************************************************************)
(* The geocoder answers                                                    *)
(***************************************************************************)
GeocodeReply(reply) ==
  /\ pc = "geocode"
  /\ UNCHANGED <<world, variant, req, hasKey, phase, radioIdx, lteCells, anyCells, fallback>>
  /\ IF reply.kind = "reject"
     THEN /\ Throw(<<"fetch failed">>)
          /\ UNCHANGED <<geo, fanVars, boxVars>>
     ELSE IF reply.status # 200
     THEN /\ Throw(<<"ZIP lookup failed (">> \o Digits(reply.status) \o <<")">>)
          /\ UNCHANGED <<geo, fanVars, boxVars>>
     ELSE IF ~reply.json
     THEN /\ Throw(<<"Unexpected token">>)
          /\ UNCHANGED <<geo, fanVars, boxVars>>
     ELSE IF Len(reply.places) = 0
     THEN /\ Throw(<<"ZIP not found">>)
          /\ UNCHANGED <<geo, fanVars, boxVars>>
     ELSE LET p == reply.places[1]
              g == [lat |-> parseFloat(p.latitude), lon |-> parseFloat(p.longitude),
                    place |-> <<p.placeName, ", ", p.state>>]
          IN  /\ geo' = g
              /\ IF variant = "coverage_zip" THEN QueryOpenCellIdLTE(g) ELSE QueryLTE(g)
  /\ inFlight' = Issued(Awaited(inFlight), pc')
  /\ replay' = Answered(replay, reply, pc', sent')
  /\ UNCHANGED page

(***************************************************************************)
(* fetchOpenCellIdBox: the upstream answers one attempt                    *)
(***************************************************************************)
\* the answers the upstream may give to the request in flight
RepliesNow ==
  IF world = "empty" THEN BoxReplies({<<>>})
  ELSE IF world = "rejected" THEN {InvalidKey}
  ELSE IF world \in {"replay", "concurrent"}
  THEN IF r = 0 /\ i = 0 /\ phase = "primary"
       THEN {rp \in BoxReplies(ReplayCells(variant, phase, radio, r)) :
               rp.kind \in {"reject", "array"}}
       ELSE {[kind |-> "array", items |-> cs] : cs \in ReplayCells(variant, phase, radio, r)}
  ELSE IF world = "dense"
  THEN {[kind |-> "array", items |-> cs] :
          cs \in IF phase = "primary" THEN DenseCells(r, idx) ELSE {<<>>}}
  ELSE IF phase = "primary" THEN BoxReplies(PrimaryCells(variant, r, idx))
  ELSE BoxReplies(AnyCellsOf(radio))

\* mutated loop test: one attempt more
MoreAttemptsOffByOne(n) == n <= MaxAttempts

\* i < 6
MoreAttempts(n) == n < MaxAttempts

\* mutated control flow: a body that does not parse lets JSON.parse throw
OutcomeParseThrows(reply) ==
  IF reply.kind \in {"reject", "text"} THEN "throw"
  ELSE IF IsTooBig(reply) THEN "retry"
  ELSE "cells"

\* mutated control flow: every error payload is taken for area-too-large
OutcomeRetryAnyError(reply) ==
  IF reply.kind = "reject" THEN "throw"
  ELSE IF reply.kind = "text" THEN "empty"
  ELSE IF reply.kind = "object" /\ reply.error # <<>> THEN "retry"
  ELSE "cells"

\* mutated control flow: an error payload other than area-too-large is thrown
OutcomeErrorThrows(reply) ==
  IF reply.kind = "reject" THEN "throw"
  ELSE IF reply.kind = "text" THEN "empty"
  ELSE IF IsTooBig(reply) THEN "retry"
  ELSE IF reply.kind = "object" /\ reply.error # <<>> THEN "throw"
  ELSE "cells"

\* what one iteration of the loop does with the answer:
\*   "throw"  await request(url) rejects, nothing in the fan-out catches it
\*   "empty"  JSON.parse throws, the catch returns []
\*   "retry"  area too large: shrink and continue
\*   "cells"  return the filtered cells
Outcome(reply) ==
  IF reply.kind = "reject" THEN "throw"
  ELSE IF reply.kind = "text" THEN "empty"
  ELSE IF IsTooBig(reply) THEN "retry"
  ELSE "cells"

\* how an answer is classified in the claims
ReplyClass(reply) ==
  IF reply.kind = "reject" THEN "reject"
  ELSE IF reply.kind = "text" THEN "unparseable"
  ELSE IF IsTooBig(reply) THEN "too big"
  ELSE IF reply.kind = "object" /\ reply.error # <<>> THEN "error"
  ELSE "cells"

BoxReply(reply) ==
  /\ pc = "box"
  /\ reply \in RepliesNow
  /\ lastReply' = ReplyClass(reply)
  /\ UNCHANGED <<world, variant, req, hasKey, geo, phase, radioIdx, lteCells, anyCells,
                 fallback, fanVars>>
  /\ LET outcome == Outcome(reply)
     IN  IF outcome = "throw"
         THEN /\ Throw(<<"fetch failed">>)
              /\ UNCHANGED <<d, i, ds, sent, cells>>
         ELSE IF outcome = "empty"
         THEN /\ cells' = <<>>
              /\ pc' = "merge"
              /\ UNCHANGED <<d, i, ds, sent, response>>
         ELSE IF outcome = "retry"
         THEN /\ d' = Shrink(d)
              /\ i' = i + 1
              /\ UNCHANGED response
              /\ IF MoreAttempts(i + 1)
                 THEN /\ sent' = BoxRequest(geo, r, idx, Shrink(d), radio)
                      /\ ds' = Append(ds, Shrink(d))
                      /\ pc' = "box"
                      /\ UNCHANGED cells
                 ELSE \* the loop ends: return []
                      /\ cells' = <<>>
                      /\ pc' = "merge"
                      /\ UNCHANGED <<ds, sent>>
         ELSE /\ cells' = FilterMap(CellsOf(reply), radio)
              /\ pc' = "merge"
              /\ UNCHANGED <<d, i, ds, sent, response>>
  /\ inFlight' = Issued(Awaited(inFlight), pc')
  /\ replay' = Answered(replay, reply, pc', sent')
  /\ UNCHANGED page

(***************************************************************************)
(* The fan-out takes the cells of a box and moves on                       *)
(***************************************************************************)
\* mutated merge: the id is tested but never recorded
MergeForgetsSeen(cs, rd, seenSet, allList) ==
  [seen |-> seenSet,
   all  |-> allList \o SelectSeq(cs, LAMBDA c : DedupId(c, rd) \notin seenSet)]

\* the dedup loop over the cells of one box
MergeBox(cs, rd, seenSet, allList) == Merge(cs, rd, seenSet, allList)

FanoutStep ==
  /\ pc = "merge"
  /\ UNCHANGED <<world, variant, req, hasKey, geo, phase, radioIdx, lteCells, anyCells,
                 fallback, response, radio, cells>>
  /\ LET m == MergeBox(cells, radio, seen, all)
         n == Len(m.all)
     IN  /\ seen' = m.seen
         /\ all' = m.all
         /\ IF r = 0
            THEN \* after the center box
                 IF CapReached(variant, calls) \/ n >= centerThreshold(variant)
                 THEN FanoutReturns
                 ELSE IF 1 > maxR(variant) \/ CapReached(variant, calls)
                      THEN FanoutReturns
                      ELSE QueryBox(geo, 1, 1, radio)
            ELSE \* after a border box of ring r
                 IF n >= ringThreshold(variant)
                 THEN FanoutReturns
                 ELSE IF idx < Len(Offsets(r))
                      THEN \* next box of the ring
                           IF CapReached(variant, calls)
                           THEN FanoutReturns
                           ELSE QueryBox(geo, r, idx + 1, radio)
                      ELSE \* the ring is complete
                           IF CapReached(variant, calls) \/ r + 1 > maxR(variant)
                           THEN FanoutReturns
                           ELSE QueryBox(geo, r + 1, 1, radio)
  /\ inFlight' = Issued(inFlight, pc')
  /\ replay' = Asked(replay, pc', sent')
  /\ UNCHANGED page

(***************************************************************************)
(* The verdict                                                             *)
(***************************************************************************)
\* the operators of a list of cells, first occurrences in order:
\* Array.from(new Set(cells.map(c => labelOperator(c.mcc, c.mnc))))
OperatorsOf(cs) == Uniq([k \in DOMAIN cs |-> labelOperator(cs[k].mcc, cs[k].mnc)])

\* mutated filter: every detected operator is reported as a match
NetworksAll(ops) == ops

\* lteOperators.filter(op => allowed.has(op))
Networks(ops) == SelectSeqP(ops, buildAllowedSet, 1)

\* lteOperators.map(op => ({ radio: "LTE", operator: op }))
DetectedLTE(ops) == [k \in DOMAIN ops |-> [radio |-> "LTE", operator |-> ops[k]]]

\* the order of Array.prototype.sort on the strings the handlers sort
SortRank(str) ==
  LET order == <<"AT&T", "CDMA", "GSM", "LTE", "NR", "T-Mobile", "UMTS",
                 "Union Wireless", "Unknown Provider", "Verizon", "WCDMA">>
  IN  CHOOSE k \in DOMAIN order : order[k] = str[1]

RECURSIVE Insert(_, _)
Insert(sorted, x) ==
  IF Len(sorted) = 0 THEN <<x>>
  ELSE IF SortRank(x) < SortRank(Head(sorted)) THEN <<x>> \o sorted
  ELSE <<Head(sorted)>> \o Insert(Tail(sorted), x)

RECURSIVE Sort(_)
\* list.sort() of a list of strings
Sort(list) == IF Len(list) = 0 THEN <<>> ELSE Insert(Sort(Tail(list)), Head(list))

\* mutated explanation: only the first detected operator is named
ReasonFirstOnly(place, ops) ==
  <<"No FloLive EU2/US2 networks near ">> \o place
    \o <<", but LTE towers were detected for: ">> \o ops[1] \o <<".">>

\* mutated explanation: none is given
ReasonNone(place, ops) == <<>>

\* "No FloLive EU2/US2 networks near <place>, but LTE towers were detected for: ..."
ReasonNotAllowed(place, ops) ==
  <<"No FloLive EU2/US2 networks near ">> \o place
    \o <<", but LTE towers were detected for: ">> \o Join(ops, ", ") \o <<".">>

RECURSIVE GroupByRadio(_, _, _)
\* byRadio: radio -> Set(operators), both in insertion order
GroupByRadio(cs, k, acc) ==
  IF k > Len(cs) THEN acc
  ELSE LET op == labelOperator(cs[k].mcc, cs[k].mnc)
           rd == cs[k].radio
           at == {j \in DOMAIN acc : acc[j].radio = rd}
       IN  IF at = {}
           THEN GroupByRadio(cs, k + 1, Append(acc, [radio |-> rd, ops |-> <<op>>]))
           ELSE LET j == CHOOSE x \in at : TRUE
                IN  GroupByRadio(cs, k + 1,
                      [acc EXCEPT ![j].ops = IF op \in Range(@) THEN @ ELSE Append(@, op)])

\* the entries pushed to detected while anyCells is walked (seenPairs)
DetectedAny(cs) == Uniq([k \in DOMAIN cs |->
                           [radio |-> cs[k].radio,
                            operator |-> labelOperator(cs[k].mcc, cs[k].mnc)]])

\* mutated explanation: only the first technology is listed
PartsFirstOnly(byRadio) ==
  IF Len(byRadio) = 0 THEN <<>>
  ELSE << <<byRadio[1].radio, ": ">> \o Join(byRadio[1].ops, ", ") >>

\* parts: `${r}: ${Array.from(ops).join(", ")}`, sorted
Parts(byRadio) ==
  Sort([k \in DOMAIN byRadio |->
          <<byRadio[k].radio, ": ">> \o Join(byRadio[k].ops, ", ")])

\* the 200 response of part_001 when no fallback ran
VerdictPrimary(g, lte) ==
  LET lteOperators == OperatorsOf(lte)
      networks     == Networks(lteOperators)
      connects     == Len(networks) > 0
  IN  [connects |-> connects,
       networks |-> networks,
       reason |-> IF connects THEN <<>> ELSE ReasonNotAllowed(g.place, lteOperators),
       presentOperators |-> lteOperators,
       detected |-> DetectedLTE(lteOperators),
       fccProviders |-> <<>>,
       cellsCount |-> Len(lte),
       place |-> g.place]

\* the 200 response of part_001 after queryAnyRadios
VerdictAny(g, lte, anyCs) ==
  LET lteOperators == OperatorsOf(lte)
      networks     == Networks(lteOperators)
      byRadio      == GroupByRadio(anyCs, 1, <<>>)
      detected     == DetectedLTE(lteOperators) \o DetectedAny(anyCs)
  IN  [connects |-> Len(networks) > 0,
       networks |-> networks,
       reason |->
         IF Len(byRadio) > 0
         THEN <<"No LTE towers found near ">> \o g.place
                \o <<". Detected other towers: ">> \o Join(Parts(byRadio), "; ") \o <<".">>
         ELSE <<"No towers of any radio type found near ">> \o g.place
                \o <<". Crowd data may be sparse in this area.">>,
       presentOperators |->
         IF Len(byRadio) > 0
         THEN Uniq([k \in DOMAIN detected |-> detected[k].operator])
         ELSE <<>>,
       detected |-> detected,
       fccProviders |-> <<>>,
       cellsCount |-> Len(anyCs),
       place |-> g.place]

(***************************************************************************)
(* coverage.js: the FCC provider lookup                                    *)
(***************************************************************************)
Provider(providerName, name, technology, rd) ==
  [providerName |-> providerName, name |-> name, ProviderName |-> <<>>, provider |-> <<>>,
   technology |-> technology, tech |-> <<>>, serviceType |-> <<>>, radio |-> rd]

ProviderList ==
  << Provider(<<"Verizon", " ">>, <<>>, <<"LTE">>, <<>>),
     Provider(<<>>, <<"AT&T">>, <<>>, <<"5G">>),
     Provider(<<>>, <<>>, <<>>, <<>>),
     Provider(<<"Verizon">>, <<"Cellco">>, <<" ">>, <<>>) >>

\* broadbandmap.fcc.gov: the call rejects, or resolves with a status and a body
FccReplies ==
  { [kind |-> "reject", status |-> 0,   shape |-> "none",      items |-> <<>>],
    [kind |-> "ok",     status |-> 500, shape |-> "array",     items |-> ProviderList],
    [kind |-> "ok",     status |-> 200, shape |-> "text",      items |-> <<>>],
    [kind |-> "ok",     status |-> 200, shape |-> "object",    items |-> <<>>],
    [kind |-> "ok",     status |-> 200, shape |-> "array",     items |-> <<>>],
    [kind |-> "ok",     status |-> 200, shape |-> "array",     items |-> ProviderList],
    [kind |-> "ok",     status |-> 200, shape |-> "results",   items |-> ProviderList],
    [kind |-> "ok",     status |-> 200, shape |-> "providers", items |-> ProviderList] }

RECURSIVE FirstTruthy(_, _)
\* a || b || ... || fallback on strings
FirstTruthy(list, dflt) ==
  IF Len(list) = 0 THEN dflt
  ELSE IF Head(list) # <<>> THEN Head(list)
  ELSE FirstTruthy(Tail(list), dflt)

\* mutated lookup: the status of the answer is not looked at
fccProvidersNearAnyStatus(reply) ==
  IF reply.kind = "reject" THEN <<>>
  ELSE IF reply.shape \notin {"array", "results", "providers"} THEN <<>>
  ELSE [k \in DOMAIN reply.items |->
          LET q == reply.items[k]
          IN  [name  |-> Trim(FirstTruthy(<<q.providerName, q.name, q.ProviderName,
                                            q.provider>>, <<"Unknown Provider">>)),
               radio |-> Trim(FirstTruthy(<<q.technology, q.tech, q.serviceType,
                                            q.radio>>, <<>>))]]

\* the list fccProvidersNear resolves to
fccProvidersNear(reply) ==
  IF reply.kind = "reject" THEN <<>>
  ELSE IF reply.status >= 400 THEN <<>>
  ELSE IF reply.shape \notin {"array", "results", "providers"} THEN <<>>
  ELSE [k \in DOMAIN reply.items |->
          LET q == reply.items[k]
          IN  [name  |-> Trim(FirstTruthy(<<q.providerName, q.name, q.ProviderName,
                                            q.provider>>, <<"Unknown Provider">>)),
               radio |-> Trim(FirstTruthy(<<q.technology, q.tech, q.serviceType,
                                            q.radio>>, <<>>))]]

\* the 200 response of coverage.js; fcc is the provider list, empty when the
\* lookup was not made
VerdictCoverage(g, lte, fcc) ==
  LET lteOperators == OperatorsOf(lte)
      networks     == Networks(lteOperators)
      connects     == Len(networks) > 0
      names        == Sort(Uniq([k \in DOMAIN fcc |-> fcc[k].name]))
  IN  [connects |-> connects,
       networks |-> networks,
       reason |->
         IF connects THEN <<>>
         ELSE IF Len(lteOperators) > 0 THEN ReasonNotAllowed(g.place, lteOperators)
         ELSE IF Len(fcc) > 0
         THEN <<"No LTE towers found via OpenCelliD near ">> \o g.place
                \o <<". FCC lists providers here: ">> \o Join(names, ", ") \o <<".">>
         ELSE <<"No LTE towers found via OpenCelliD near ">> \o g.place
                \o <<", and FCC provider lookup returned none. ">>
                \o <<"Crowd data or FCC listing may be sparse here.">>,
       presentOperators |->
         IF connects \/ Len(lteOperators) > 0 THEN lteOperators
         ELSE IF Len(fcc) > 0 THEN names
         ELSE <<>>,
       detected |-> DetectedLTE(lteOperators),
       fccProviders |-> fcc,
       cellsCount |-> Len(lte),
       place |-> g.place]

(***************************************************************************)
(* A fan-out has returned: the caller goes on                              *)
(***************************************************************************)
\* mutated test of part_001: the scan of all technologies runs whenever the
\* verdict is negative
NeedsAnyRadiosWheneverNegative(lteOperators) == TRUE

\* part_001, inside if (!connects): lteOperators.length > 0 is false
NeedsAnyRadios(lteOperators) == Len(lteOperators) = 0

FanoutReturn ==
  /\ pc = "fanout_done"
  /\ UNCHANGED <<world, variant, req, hasKey, geo>>
  /\ IF phase = "primary"
     THEN LET lteOperators == OperatorsOf(all)
              connects     == Len(Networks(lteOperators)) > 0
          IN  /\ lteCells' = all
              /\ IF connects
                 THEN /\ Respond(200, IF variant = "part_001"
                                      THEN VerdictPrimary(geo, all)
                                      ELSE VerdictCoverage(geo, all, <<>>))
                      /\ UNCHANGED <<phase, radioIdx, anyCells, fallback, fanVars, boxVars>>
                 ELSE IF variant = "coverage"
                 THEN \* fccProviders = await fccProvidersNear(geo)
                      /\ fallback' = "fcc"
                      /\ sent' = [kind |-> "fcc", lat |-> geo.lat, lon |-> geo.lon]
                      /\ pc' = "fcc"
                      /\ UNCHANGED <<phase, radioIdx, anyCells, fanVars, d, i, ds,
                                     lastReply, cells, response>>
                 ELSE IF ~NeedsAnyRadios(lteOperators)
                 THEN /\ Respond(200, VerdictPrimary(geo, all))
                      /\ UNCHANGED <<phase, radioIdx, anyCells, fallback, fanVars, boxVars>>
                 ELSE \* anyCells = await queryAnyRadios(geo): the key is tested
                      \* again, then the fan-out of the first technology starts
                      /\ fallback' = "anyRadios"
                      /\ phase' = "any"
                      /\ radioIdx' = 1
                      /\ anyCells' = <<>>
                      /\ StartFanout(geo, radios[1])
                      /\ UNCHANGED response
     ELSE \* queryAnyRadios: all.push(...cells), then the next technology
          /\ anyCells' = anyCells \o all
          /\ UNCHANGED <<lteCells, fallback, phase>>
          /\ IF radioIdx < Len(radios)
             THEN /\ radioIdx' = radioIdx + 1
                  /\ StartFanout(geo, radios[radioIdx + 1])
                  /\ UNCHANGED response
             ELSE /\ Respond(200, VerdictAny(geo, lteCells, anyCells \o all))
                  /\ UNCHANGED <<radioIdx, fanVars, boxVars>>
  /\ inFlight' = Issued(inFlight, pc')
  /\ replay' = Asked(replay, pc', sent')
  /\ UNCHANGED page

FccReply(reply) ==
  /\ pc = "fcc"
  /\ Respond(200, VerdictCoverage(geo, lteCells, fccProvidersNear(reply)))
  /\ UNCHANGED <<world, variant, req, hasKey, geo, phase, radioIdx, lteCells, anyCells,
                 fallback, fanVars, boxVars>>
  /\ inFlight' = Issued(Awaited(inFlight), pc')
  /\ replay' = Answered(replay, reply, pc', sent')
  /\ UNCHANGED page

(***************************************************************************)
(* coverage.js lines 239-360: one box, mapped operators only               *)
(***************************************************************************)
\* getInArea as queryOpenCellIdLTE sees it: the call rejects, or resolves with
\* a status and a body
AreaReplies ==
  { [kind |-> "reject", status |-> 0, data |-> [kind |-> "null"]] }
    \cup { [kind |-> "ok", status |-> st, data |-> dt] :
             st \in {200, 403},
             dt \in BoxReplies(IF world = "any"
                               THEN {<<>>, CellsNotAllowed, CellsAllowed}
                               ELSE {<<>>}) \ {[kind |-> "reject"]} }

\* for (const c of cells) { op = operatorFromMccMnc(c.mcc, c.mnc); if (op) present.add(op) }
OperatorsMapped(cs) ==
  LET mapped == SelectSeq(cs, LAMBDA c :
                  \E n \in operatorFromMccMnc(c.mcc, c.mnc) : n # <<>>)
  IN  Uniq([k \in DOMAIN mapped |->
              CHOOSE n \in operatorFromMccMnc(mapped[k].mcc, mapped[k].mnc) : TRUE])

\* the 200 response of the handler of coverage.js lines 318-360
VerdictZip(zip, g, cs) ==
  LET presentOperators == OperatorsMapped(cs)
      matches          == Networks(presentOperators)
      connects         == Len(matches) > 0
  IN  [connects |-> connects,
       networks |-> matches,
       reason |->
         IF connects THEN <<>>
         ELSE IF Len(presentOperators) > 0
         THEN <<"ZIP ">> \o zip \o <<" (">> \o g.place \o <<") shows LTE cells for: ">>
                \o Join(presentOperators, ", ") \o <<", which are not in FloLive EU2/US2.">>
         ELSE <<"No LTE cells returned by OpenCelliD for ZIP ">> \o zip \o <<" (">>
                \o g.place \o <<").">>,
       presentOperators |-> presentOperators,
       cellsCount |-> Len(cs),
       place |-> g.place]

BboxReply(reply) ==
  /\ pc = "bbox"
  /\ UNCHANGED <<world, variant, req, hasKey, geo, phase, radioIdx, anyCells, fallback,
                 fanVars, d, i, ds, sent, lastReply>>
  /\ IF reply.kind = "reject"
     THEN /\ Throw(<<"fetch failed">>)
          /\ UNCHANGED <<cells, lteCells>>
     ELSE IF reply.status >= 400
     THEN /\ Throw(<<"OpenCelliD error: ">> \o Digits(reply.status))
          /\ UNCHANGED <<cells, lteCells>>
     ELSE IF reply.data.kind = "text"
     THEN /\ Throw(<<"Unexpected OpenCelliD response: ", "...">>)
          /\ UNCHANGED <<cells, lteCells>>
     ELSE LET cs == SelectSeq(CellsOf(reply.data),
                              LAMBDA c : c # Null /\ c.mcc # Undef /\ c.mnc # Undef)
          IN  /\ cells' = cs
              /\ lteCells' = cs
              /\ Respond(200, VerdictZip(Trim(req.zip), geo, cs))
  /\ inFlight' = Issued(Awaited(inFlight), pc')
  /\ replay' = Answered(replay, reply, pc', sent')
  /\ UNCHANGED page

(***************************************************************************)
(* part_000 lines 59-120: the tower search page                            *)
(***************************************************************************)
LongText == <<"Verizon Wireless tower lease notice for the parcel on the county road">>

\* www.antennasearch.com: the call rejects, or resolves with a status and a
\* page; a page is given by the texts of its table cells
PageReplies ==
  { [kind |-> "reject", status |-> 0,   texts |-> <<>>],
    [kind |-> "ok",     status |-> 503, texts |-> <<>>],
    [kind |-> "ok",     status |-> 200, texts |-> <<>>],
    [kind |-> "ok",     status |-> 200,
     texts |-> << <<" ", "Verizon", " Wireless", " ">>, <<"Cellco", " Partnership">>,
                  <<"Crown Castle">>, <<"1", "2", "3">>, <<" ">>, LongText,
                  <<"Alaska Wireless">>, <<"Verizon", " Wireless">> >>],
    [kind |-> "ok",     status |-> 200,
     texts |-> << <<"T-Mobile", " USA">>, <<"Union Telephone">>, <<"AT&T">>,
                  <<"T-Mobile">> >>] }

\* the 200 response of the handler of part_000 lines 87-120
VerdictOwners(zip, rawOwners) ==
  LET normalized    == [k \in DOMAIN rawOwners |-> normalize(rawOwners[k])]
      matches       == SelectSeqP(normalized, buildAllowedSetNormalized, 1)
      uniqueMatches == Uniq(matches)
      connects      == Len(uniqueMatches) > 0
      foundUnique   == Uniq(normalized)
  IN  [connects |-> connects,
       networks |-> uniqueMatches,
       reason |->
         IF connects THEN <<>>
         ELSE IF Len(foundUnique) > 0
         THEN <<"ZIP ">> \o zip \o <<" shows towers for: ">> \o Join(foundUnique, ", ")
                \o <<", which are not in FloLive EU2/US2.">>
         ELSE <<"No recognizable carriers found for ZIP ">> \o zip
                \o <<" from tower data.">>,
       rawProviders |-> Uniq(rawOwners)]

ScrapeReply(reply) ==
  /\ pc = "scrape"
  /\ UNCHANGED <<world, variant, req, hasKey, geo, phase, radioIdx, lteCells, anyCells,
                 fallback, fanVars, boxVars>>
  /\ IF reply.kind = "reject"
     THEN Respond(502, [error |-> <<"fetch failed">>])
     ELSE IF reply.status >= 400
     THEN Respond(502, [error |-> <<"AntennaSearch error: ">> \o Digits(reply.status)])
     ELSE Respond(200, VerdictOwners(Trim(req.zip), Owners(reply.texts)))
  /\ inFlight' = Issued(Awaited(inFlight), pc')
  /\ replay' = Answered(replay, reply, pc', sent')
  /\ UNCHANGED page

(***************************************************************************)
(* The request as a state machine                                          *)
(***************************************************************************)
Next ==
  \/ HandleRequest
  \/ \E reply \in GeocodeReplies : GeocodeReply(reply)
  \/ \E reply \in RepliesNow : BoxReply(reply)
  \/ FanoutStep
  \/ FanoutReturn
  \/ \E reply \in FccReplies : FccReply(reply)
  \/ \E reply \in AreaReplies : BboxReply(reply)
  \/ \E reply \in PageReplies : ScrapeReply(reply)

Spec == Init /\ [][Next]_vars

\* termination is examined where the upstream has no towers or rejects the
\* key: no fan-out stops early on the number of its records, and every box
\* request can still fail, be unparseable or be answered area-too-large; the
\* requests are those that give no coordinate
InitFair ==
  /\ Init
  /\ world \in {"empty", "rejected"}
  /\ req.lat = <<>>

\* every upstream call eventually returns or fails, and a handler that can
\* run does run: no step that is possible is postponed forever
FairSpec == InitFair /\ [][Next]_vars /\ WF_vars(Next)

(***************************************************************************)
(* The same request served twice with the same upstream answers            *)
(***************************************************************************)
\* the locals of one request's handler and of the functions it has called
Locals ==
  [pc |-> pc, geo |-> geo, phase |-> phase, radioIdx |-> radioIdx, radio |-> radio,
   seen |-> seen, all |-> all, calls |-> calls, r |-> r, idx |-> idx,
   batches |-> batches, d |-> d, i |-> i, ds |-> ds, sent |-> sent,
   lastReply |-> lastReply, cells |-> cells, lteCells |-> lteCells,
   anyCells |-> anyCells, fallback |-> fallback, response |-> response,
   inFlight |-> inFlight]

\* no other request is being served
NoOther == [locals |-> [pc |-> "done", seen |-> {}], answers |-> <<>>, log |-> <<>>]

\* the handler is entered again with the request it has just answered; what
\* the first run called, received and sent is kept for comparison.  The
\* locals of the fan-out are created when a fan-out starts, not here.
SecondRequest ==
  /\ pc = "done"
  /\ replay.run = 1
  /\ pc' = "start"
  /\ geo' = NoGeo
  /\ phase' = "primary"
  /\ radioIdx' = 0
  /\ sent' = NoRequest
  /\ lteCells' = <<>>
  /\ anyCells' = <<>>
  /\ fallback' = "none"
  /\ response' = NoResponse
  /\ inFlight' = 0
  /\ UNCHANGED <<variant, req, hasKey, world, page, fanVars, d, i, ds, lastReply, cells>>
  /\ replay' = [run |-> 2, answers |-> <<>>, log |-> <<>>,
                first |-> [answers |-> replay.answers, log |-> replay.log,
                           response |-> response],
                other |-> IF world = "concurrent"
                          THEN [locals |-> Locals', answers |-> <<>>, log |-> <<>>]
                          ELSE NoOther]

\* the handler of one request is suspended in an await (or has not begun, or
\* has returned) and the handler of the other request runs on: every local
\* of the handler and of the functions it has called belongs to its request
Switch ==
  /\ world = "concurrent"
  /\ replay.run = 2
  /\ pc \in Awaiting \cup {"start", "done"}
  /\ replay.other.locals.pc # "done"
  /\ LET o == replay.other.locals
     IN  /\ pc' = o.pc
         /\ geo' = o.geo
         /\ phase' = o.phase
         /\ radioIdx' = o.radioIdx
         /\ radio' = o.radio
         /\ seen' = o.seen
         /\ all' = o.all
         /\ calls' = o.calls
         /\ r' = o.r
         /\ idx' = o.idx
         /\ batches' = o.batches
         /\ d' = o.d
         /\ i' = o.i
         /\ ds' = o.ds
         /\ sent' = o.sent
         /\ lastReply' = o.lastReply
         /\ cells' = o.cells
         /\ lteCells' = o.lteCells
         /\ anyCells' = o.anyCells
         /\ fallback' = o.fallback
         /\ response' = o.response
         /\ inFlight' = o.inFlight
  /\ replay' = [replay EXCEPT !.answers = replay.other.answers,
                               !.log = replay.other.log,
                               !.other = [locals |-> Locals, answers |-> replay.answers,
                                          log |-> replay.log]]
  /\ UNCHANGED <<variant, req, hasKey, world, page>>

\* the upstream answers the second run as it answered the first
Same(reply) ==
  (replay.run = 2 /\ Len(replay.answers) < Len(replay.first.answers))
    => reply = replay.first.answers[Len(replay.answers) + 1]

InitReplay ==
  /\ variant \in Variants
  /\ req = ReferenceRequest
  /\ world \in {"replay", "concurrent"}
  /\ hasKey \in BOOLEAN
  /\ replay = [run |-> 1, answers |-> <<>>, log |-> <<>>,
               first |-> [answers |-> <<>>, log |-> <<>>, response |-> NoResponse],
               other |-> NoOther]
  /\ page = NoPage
  /\ Entered

NextReplay ==
  \/ HandleRequest
  \/ \E reply \in GeocodeReplies : Same(reply) /\ GeocodeReply(reply)
  \/ \E reply \in RepliesNow : Same(reply) /\ BoxReply(reply)
  \/ FanoutStep
  \/ FanoutReturn
  \/ \E reply \in FccReplies : Same(reply) /\ FccReply(reply)
  \/ \E reply \in AreaReplies : Same(reply) /\ BboxReply(reply)
  \/ \E reply \in PageReplies : Same(reply) /\ ScrapeReply(reply)
  \/ SecondRequest
  \/ Switch

SpecReplay == InitReplay /\ [][NextReplay]_vars

(***************************************************************************)
(* pages/index.js: the page that runs the check                            *)
(***************************************************************************)
handlerVars ==
  <<variant, req, hasKey, pc, geo, phase, radioIdx, radio, seen, all, calls, r, idx,
    batches, d, i, ds, sent, lastReply, cells, lteCells, anyCells, fallback, response,
    inFlight, replay, world>>

\* the checks one visit of the page starts
MaxChecks == 3

\* what the user types into the input
Typed ==
  { <<>>, <<" ">>, <<"0", "2", "1", "3", "9">>, <<"9", "0", "2", "1", "0">>,
    <<"a", "b", "c">> }

\* fetch(`/api/coverage?zip=...`): the promise rejects, or resolves with a
\* status and a body that is the JSON object of a handler or is not JSON
CheckReplies ==
  { [kind |-> "reject", status |-> 0, json |-> FALSE, message |-> <<"Failed to fetch">>,
     data |-> Null],
    [kind |-> "reject", status |-> 0, json |-> FALSE, message |-> <<>>, data |-> Null],
    [kind |-> "ok", status |-> 500, json |-> FALSE, message |-> <<"Unexpected token <">>,
     data |-> Null],
    [kind |-> "ok", status |-> 200, json |-> TRUE, message |-> <<>>,
     data |-> [connects |-> TRUE, networks |-> << <<"T-Mobile">> >>, reason |-> <<>>]],
    [kind |-> "ok", status |-> 200, json |-> TRUE, message |-> <<>>,
     data |-> [connects |-> FALSE, networks |-> <<>>,
               reason |-> <<"No recognizable carriers found for ZIP ">>]],
    [kind |-> "ok", status |-> 400, json |-> TRUE, message |-> <<>>,
     data |-> [error |-> <<"Please provide a valid US ZIP (5 digits).">>]],
    [kind |-> "ok", status |-> 502, json |-> TRUE, message |-> <<>>,
     data |-> [error |-> <<>>]] }

\* useState('') / useState(false) / useState(null) / useState(null); started
\* counts the calls of check, fetches holds the fetches not yet settled and
\* settled is the number of the check that wrote res or err last
InitPage ==
  /\ page = [shown |-> TRUE, zip |-> <<>>, loading |-> FALSE, res |-> Null, err |-> Null,
             started |-> 0, fetches |-> {}, settled |-> 0]
  /\ variant = "part_001"
  /\ req = ReferenceRequest
  /\ world = "empty"
  /\ hasKey = TRUE
  /\ replay = NoReplay
  /\ Entered

\* onChange={(e)=>setZip(e.target.value)}
setZip(z) ==
  /\ page.shown
  /\ z # page.zip
  /\ page' = [page EXCEPT !.zip = z]
  /\ UNCHANGED handlerVars

\* mutated attribute: disabled={!zip}
ButtonDisabledWithoutZip(zip, loading) == zip = <<>>

\* disabled={!zip || loading}
ButtonDisabled(zip, loading) == zip = <<>> \/ loading

\* a click on the button: check() up to its await
check ==
  /\ page.shown
  /\ ~ButtonDisabled(page.zip, page.loading)
  /\ page.started < MaxChecks
  /\ page' = [page EXCEPT !.err = Null, !.res = Null, !.loading = TRUE,
                           !.started = @ + 1,
                           !.fetches = @ \cup {[check |-> page.started + 1,
                                                 zip |-> Trim(page.zip)]}]
  /\ UNCHANGED handlerVars

\* e?.message || 'Something went wrong'
MessageOf(message) == FirstTruthy(<<message>>, <<"Something went wrong">>)

\* check() from the answer of its fetch to its end: try, catch and finally
checkResumes(f, reply) ==
  /\ page.shown
  /\ f \in page.fetches
  /\ LET thrown ==
           IF reply.kind = "reject" \/ ~reply.json THEN [message |-> reply.message]
           ELSE IF reply.status \notin 200..299
           THEN [message |-> FirstTruthy(<<reply.data.error>>,
                                         <<"Request failed: ">> \o Digits(reply.status))]
           ELSE Null
     IN  page' = [page EXCEPT
                    !.res = IF thrown = Null THEN reply.data ELSE @,
                    !.err = IF thrown = Null THEN @
                            ELSE [message |-> MessageOf(thrown.message)],
                    !.loading = FALSE,
                    !.fetches = @ \ {f},
                    !.settled = f.check]
  /\ UNCHANGED handlerVars

NextPage ==
  \/ \E z \in Typed : setZip(z)
  \/ check
  \/ \E f \in page.fetches : \E reply \in CheckReplies : checkResumes(f, reply)

PageSpec == InitPage /\ [][NextPage]_vars

(***************************************************************************)
(* Properties                                                              *)
(***************************************************************************)
\* the operators the handler resolves from a list of cells, as a set
OperatorSet(cs) == {labelOperator(cs[k].mcc, cs[k].mnc) : k \in DOMAIN cs}

\* the deduplication key of the data model:
\* (country code, network code, cell identifier or empty, radio technology)
KeyTuple(c) ==
  <<c.mcc, c.mnc, IF c.cid # Undef THEN c.cid ELSE c.cellid, c.radio>>

\* the full border of ring k, in boxes
BorderLen(k) == IF k = 0 THEN 1 ELSE 8 * k

\* C1: in every run of the ring fan-out, whatever the box queries return, the
\* number of box queries issued never exceeds the request ceiling of the
\* variant (120 in fanoutForRadio, 80 in ocidFanoutLTE).
C1_CallsWithinCeiling ==
  /\ calls <= (IF variant = "part_001" THEN 120 ELSE 80)
  /\ Len(batches) > 0 => calls <= hardCap(variant)

\* C1 witness: a fan-out that was stopped by the ceiling, in a ring before the
\* last one
C1_CeilingReached ==
  /\ pc = "fanout_done"
  /\ calls = hardCap(variant)
  /\ r < maxR(variant)
  /\ world = "any"

\* C2: when every box query returns zero records, the fan-out issues the
\* center batch and one complete border batch for each ring 1..maxR, that is
\* maxR + 1 batches, before it stops.
C2_AllRingsWhenEmpty ==
  (pc = "fanout_done" /\ all = <<>>)
    => batches = [k \in 1..(maxR(variant) + 1) |-> BorderLen(k - 1)]

\* C3: one call of fetchOpenCellIdBox sends at most 6 upstream requests; it
\* sends a further request only after an area-too-large reply, stops at the
\* first reply that is not area-too-large, and returns an empty list when all
\* 6 attempts report area-too-large.
C3_AtMostSixAttempts ==
  [][ /\ Len(ds') <= 6
      /\ (pc = "box" /\ pc' = "box" /\ calls' = calls)
           => (lastReply' = "too big" /\ Len(ds') = Len(ds) + 1)
      /\ (pc = "box" /\ lastReply' # "too big")
           => (pc' \in {"merge", "done"} /\ ds' = ds /\ sent' = sent)
      /\ (pc = "box" /\ lastReply' = "too big" /\ Len(ds) = 6)
           => (pc' = "merge" /\ cells' = <<>> /\ ds' = ds /\ sent' = sent)
    ]_vars

\* C3 witness: a box call whose 6 attempts were all answered area-too-large
C3_SixTooBig ==
  /\ pc = "merge"
  /\ Len(ds) = 6
  /\ lastReply = "too big"
  /\ cells = <<>>

\* the box a request is centred on
BoxCentre ==
  [lat |-> Plus(geo.lat, Offsets(r)[idx][1]), lon |-> Plus(geo.lon, Offsets(r)[idx][2])]

\* a third attempt was accepted after two area-too-large replies
ThirdAttemptAccepted ==
  /\ pc = "merge"
  /\ Len(ds) = 3
  /\ lastReply = "cells"

\* C4 as stated: when the upstream reports area-too-large on the first two
\* attempts and succeeds on the third, the bounding box of the accepted third
\* request uses one quarter of the starting half-width.
C4_QuarterHalfWidth ==
  ThirdAttemptAccepted
    => /\ 4 * sent.d = ds[1]
       /\ sent.bbox = Bbox(BoxCentre.lat, BoxCentre.lon, ds[1] \div 4)

\* C4 amended: the half-width of the accepted third request is the starting
\* half-width halved twice but not below the floor 0.004: for the starting
\* half-width 0.008 it is 0.004, one half of it.
C4_HalvedToFloor ==
  ThirdAttemptAccepted
    => /\ ds[1] = 80000
       /\ sent.d = (IF ds[1] \div 4 > 40000 THEN ds[1] \div 4 ELSE 40000)
       /\ 2 * sent.d = ds[1]
       /\ sent.bbox = Bbox(BoxCentre.lat, BoxCentre.lon, 40000)

\* C4 witness: a third attempt accepted with cells in it
C4_ThirdAccepted ==
  /\ ThirdAttemptAccepted
  /\ cells # <<>>

\* C5: across the attempts of one fetchOpenCellIdBox call started with
\* half-width 0.008, the half-width of every request sent is non-increasing
\* from attempt to attempt and never below the floor 0.004.
C5_HalfWidthMonotoneAboveFloor ==
  /\ \A k \in DOMAIN ds : ds[k] >= 40000
  /\ \A k \in DOMAIN ds : k > 1 => ds[k] <= ds[k - 1]
  /\ Len(ds) > 0 => ds[1] = 80000
  /\ pc = "box" => (sent.d = ds[Len(ds)] /\
                    sent.bbox = Bbox(BoxCentre.lat, BoxCentre.lon, ds[Len(ds)]))

\* C5 witness: a call that shrank its box and asked again at the floor
C5_ShrunkTwice ==
  /\ pc = "box"
  /\ Len(ds) >= 3
  /\ ds[3] = minD

\* C6: every irregular outcome of a single box query (an unparseable body, an
\* error payload other than area-too-large, a transport failure of that one
\* call) is absorbed as an empty result for that box and does not end the
\* request in an error response.
C6_BoxIrregularitiesAbsorbed ==
  lastReply \in {"unparseable", "error", "reject"}
    => /\ cells = <<>>
       /\ response.status # 502
       /\ pc # "done" \/ response.status = 200

\* C7: when the body of an area-query response does not parse as JSON,
\* fetchOpenCellIdBox returns an empty list without raising and without
\* sending a further attempt for that box.
C7_UnparseableIsEmpty ==
  [][ (pc = "box" /\ lastReply' = "unparseable")
        => /\ pc' = "merge"
           /\ cells' = <<>>
           /\ response' = response
           /\ sent' = sent
           /\ ds' = ds
    ]_vars

\* C7 witness: an unparseable answer to a later attempt of a later box
C7_UnparseableSeen ==
  /\ pc = "merge"
  /\ lastReply = "unparseable"
  /\ calls > 1
  /\ Len(ds) > 1

\* C8: the list of one ring fan-out never contains two records with the same
\* deduplication key (country code, network code, cell identifier or empty,
\* radio technology).
C8_NoDuplicateKey ==
  \A j, k \in DOMAIN all : j # k => KeyTuple(all[j]) # KeyTuple(all[k])

\* C8 witness: the second box is being queried after the first returned more
\* records than were added, and the list already holds records
C8_DuplicateDropped ==
  /\ pc = "box"
  /\ calls = 2
  /\ Len(ds) = 1
  /\ Len(all) > 0
  /\ Len(cells) > Len(all)

\* C9: connects is true exactly when at least one operator resolved from the
\* records of the primary (LTE) fan-out is in the allowed set, and networks
\* is then exactly the set of detected LTE operators that are allowed,
\* whatever the order of detection.
C9_VerdictIsIntersection ==
  (response.status = 200 /\ variant \in FanoutVariants)
    => LET matched == OperatorSet(lteCells) \cap buildAllowedSet
       IN  /\ response.body.connects = (matched # {})
           /\ Range(response.body.networks) = matched
           /\ Len(response.body.networks) = Cardinality(matched)

\* C9 witness: a positive verdict with an operator detected that is not allowed
C9_ConnectsWithOthers ==
  /\ response.status = 200
  /\ variant \in FanoutVariants
  /\ response.body.connects
  /\ Len(response.body.networks) < Len(response.body.presentOperators)

\* C10 as stated: a fallback lookup is issued only when the primary fan-out
\* returned no LTE record at all; when it detected an operator, no upstream
\* call is made after it.
C10_FallbackOnlyWithoutLTE ==
  /\ fallback # "none" => lteCells = <<>>
  /\ (pc = "done" /\ response.status = 200 /\ lteCells # <<>>)
       => (sent.kind = "box" /\ phase = "primary")

\* C10 amended: queryAnyRadios (part_001) is issued only when the primary
\* fan-out returned no LTE record; fccProvidersNear (coverage.js) is issued
\* exactly when no detected LTE operator is allowed, also when LTE operators
\* were detected; when a detected operator is allowed, no upstream call is
\* made after the primary fan-out.
C10_FallbackPerVariant ==
  LET matched == OperatorSet(lteCells) \cap buildAllowedSet
  IN  /\ fallback = "anyRadios" => (variant = "part_001" /\ lteCells = <<>>)
      /\ fallback = "fcc" => (variant = "coverage" /\ matched = {})
      /\ (pc = "done" /\ response.status = 200 /\ variant = "coverage" /\ matched = {})
           => fallback = "fcc"
      /\ (pc = "done" /\ response.status = 200
            /\ (matched # {} \/ (variant = "part_001" /\ lteCells # <<>>)))
           => (fallback = "none" /\ sent.kind = "box" /\ phase = "primary")

\* C10 witness: part_001 answers a negative verdict with LTE operators
\* detected and without a fallback lookup
C10_NegativeWithoutFallback ==
  /\ pc = "done"
  /\ response.status = 200
  /\ variant = "part_001"
  /\ lteCells # <<>>
  /\ ~response.body.connects
  /\ fallback = "none"

\* C11: when the scan of all technologies (queryAnyRadios) is entered, the
\* ring fan-out is run once for each technology of the list NR, LTE, UMTS,
\* WCDMA, GSM, CDMA, in that order; the fan-out of a technology starts only
\* when the fan-out before it has returned; the records of every fan-out are
\* appended to the accumulated list, and the scan returns only after the
\* sixth fan-out, with the records of all of them.
C11_RadiosInOrder ==
  [][ LET order == <<"NR", "LTE", "UMTS", "WCDMA", "GSM", "CDMA">>
      IN  /\ (phase = "primary" /\ phase' = "any")
                => (pc = "fanout_done" /\ radioIdx' = 1 /\ anyCells' = <<>>)
          /\ phase' = "any"
                => (radioIdx' \in 1..6 /\ radio' = order[radioIdx'])
          /\ (phase = "any" /\ radioIdx' # radioIdx)
                => /\ pc = "fanout_done"
                   /\ radioIdx' = radioIdx + 1
                   /\ pc' = "box" /\ calls' = 1 /\ all' = <<>> /\ seen' = {}
                   /\ sent'.radio = order[radioIdx + 1]
          /\ (phase = "any" /\ pc = "fanout_done")
                => anyCells' = anyCells \o all
          /\ (phase = "any" /\ pc = "fanout_done" /\ radioIdx' = radioIdx)
                => /\ radioIdx = 6
                   /\ pc' = "done"
                   /\ response'.status = 200
                   /\ response'.body.cellsCount = Len(anyCells')
          /\ (phase = "any" /\ pc # "fanout_done")
                => (anyCells' = anyCells /\ radio' = radio /\ radioIdx' = radioIdx)
    ]_vars

\* C11 witness: the scan has returned with records of two technologies, the
\* LTE records before the GSM records
C11_ScanReturned ==
  /\ pc = "done"
  /\ phase = "any"
  /\ radioIdx = 6
  /\ \E j, k \in DOMAIN anyCells :
        j < k /\ anyCells[j].radio = "LTE" /\ anyCells[k].radio = "GSM"

\* the text contains the string str
Mentions(text, str) ==
  \E k \in 0..(Len(text) - Len(str)) : SubSeq(text, k + 1, k + Len(str)) = str

\* C12: when the primary fan-out found no LTE record and the scan of all
\* technologies found records, presentOperators is, as a set, the union of
\* the operators detected over all technologies, and the explanation names
\* every technology for which a record was detected (and every operator).
C12_FallbackNamesAll ==
  (pc = "done" /\ response.status = 200 /\ phase = "any" /\ anyCells # <<>>)
    => /\ lteCells = <<>>
       /\ Range(response.body.presentOperators) = OperatorSet(anyCells)
       /\ \A k \in DOMAIN anyCells :
            /\ Includes(response.body.reason, anyCells[k].radio)
            /\ Mentions(response.body.reason,
                        labelOperator(anyCells[k].mcc, anyCells[k].mnc))

\* C12 witness: the scan found records of two technologies and three operators
C12_TwoTechnologies ==
  /\ pc = "done"
  /\ response.status = 200
  /\ phase = "any"
  /\ {anyCells[k].radio : k \in DOMAIN anyCells} = {"LTE", "GSM"}
  /\ Len(response.body.presentOperators) = 3

\* C13: in every 200 response the explanation (reason) is absent only if
\* connects is true: every response with connects = false, whichever tier
\* produced it, carries a non-empty explanation string.
C13_NegativeHasReason ==
  response.status = 200
    => (response.body.reason = <<>> => response.body.connects)

\* C13 witness: a negative verdict after a fallback lookup that found nothing
C13_NegativeAfterFallback ==
  /\ response.status = 200
  /\ ~response.body.connects
  /\ fallback # "none"
  /\ response.body.presentOperators = <<>>
  /\ response.body.reason # <<>>

\* C14: when the primary fan-out detects at least one operator and none of
\* them is allowed, the response has connects = false, empty networks,
\* presentOperators equal to the detected LTE operators, and an explanation
\* that names every detected LTE operator.
C14_DetectedButNotAllowed ==
  (response.status = 200 /\ variant \in FanoutVariants /\ lteCells # <<>>
     /\ OperatorSet(lteCells) \cap buildAllowedSet = {})
    => /\ ~response.body.connects
       /\ response.body.networks = <<>>
       /\ Range(response.body.presentOperators) = OperatorSet(lteCells)
       /\ Len(response.body.presentOperators) = Cardinality(OperatorSet(lteCells))
       /\ \A op \in OperatorSet(lteCells) : Mentions(response.body.reason, op)

\* C14 witness: two LTE operators detected, neither allowed
C14_TwoNotAllowed ==
  /\ response.status = 200
  /\ variant = "coverage"
  /\ ~response.body.connects
  /\ Cardinality(OperatorSet(lteCells)) = 2
  /\ Len(response.body.presentOperators) = 2

\* a ZIP of five digits, optionally followed by a hyphen and four digits
WellFormedZip(z) ==
  LET digitsAt(lo, hi) == \A k \in lo..hi : z[k] \in {"0", "1", "2", "3", "4", "5", "6", "7", "8", "9"}
  IN  \/ Len(z) = 5 /\ digitsAt(1, 5)
      \/ Len(z) = 10 /\ digitsAt(1, 5) /\ z[6] = "-" /\ digitsAt(7, 10)

\* the request carries both lat and lon
SuppliesLatLon == req.lat # <<>> /\ req.lon # <<>>

\* C15: a request whose zip (surrounding blanks removed, as every handler
\* does before the test) does not match ^\d{5}(-\d{4})?$ and that supplies
\* no lat/lon pair is rejected with an error response before any upstream
\* call - geocoder, tower page, area query or fallback lookup - is issued.
C15_BadZipNoUpstream ==
  (~WellFormedZip(Trim(req.zip)) /\ ~SuppliesLatLon)
    => /\ sent = NoRequest
       /\ calls = 0
       /\ fallback = "none"
       /\ pc \in {"start", "done"}
       /\ pc = "done" => (response.status \in {400, 502}
                          /\ DOMAIN response.body = {"error"})

\* C15 witness: zip=123 was rejected
C15_ShortZipRejected ==
  /\ pc = "done"
  /\ req.zip = <<"1", "2", "3">>
  /\ response.status >= 400
  /\ sent = NoRequest

\* the request is invalid input: a lat/lon pair that is not two finite
\* numbers where the handler takes coordinates, else a malformed zip
InvalidInput ==
  IF variant \in FanoutVariants /\ SuppliesLatLon
  THEN ~IsFinite(parseFloat(req.lat)) \/ ~IsFinite(parseFloat(req.lon))
  ELSE ~WellFormedZip(Trim(req.zip))

\* C16: the handler answers invalid input (malformed zip, invalid lat/lon)
\* with status 400 and an {error} object; upstream failures are answered
\* with status 502, and invalid input never yields 502.
C16_InvalidInputIs400 ==
  pc = "done"
    => /\ InvalidInput => (response.status = 400 /\ DOMAIN response.body = {"error"})
       /\ response.status = 502 => (~InvalidInput /\ DOMAIN response.body = {"error"})

\* C17: when the request supplies both lat and lon, the geocoding service is
\* never called; if either value is not a finite number the request is
\* rejected as invalid input and no area query is issued.
C17_LatLonValidated ==
  (variant \in FanoutVariants /\ SuppliesLatLon)
    => /\ sent.kind # "geocode"
       /\ (~IsFinite(parseFloat(req.lat)) \/ ~IsFinite(parseFloat(req.lon)))
            => /\ sent = NoRequest
               /\ calls = 0
               /\ pc \in {"start", "done"}
               /\ pc = "done" => (response.status \in {400, 502}
                                  /\ response.body = [error |-> <<"Invalid lat/lon.">>])

\* C18: when OPENCELLID_API_KEY is absent the pipeline does not run: no
\* upstream call of any kind (geocoder or area query) is issued for the
\* request, and the request ends in an error rather than a verdict.
C18_NoKeyNoUpstream ==
  (~hasKey /\ variant \in FanoutVariants)
    => /\ sent = NoRequest
       /\ calls = 0
       /\ pc = "done" => (response.status >= 400 /\ DOMAIN response.body = {"error"})

\* C19: within one request at most one upstream call is in flight at any
\* time: the geocoder call, every box query attempt and every fallback
\* lookup has completed before the next upstream call is issued.
C19_OneCallInFlight ==
  /\ inFlight \in {0, 1}
  /\ inFlight = 1 <=> pc \in {"geocode", "box", "fcc", "bbox", "scrape"}
  /\ inFlight = 1 => sent # NoRequest
  /\ pc = "done" => inFlight = 0

\* C19 witness: the second attempt of a box of the second technology of the
\* fallback scan is the one call in flight (the geocoder call, the primary
\* fan-out and the NR fan-out are over)
C19_RetryInFallback ==
  /\ pc = "box"
  /\ phase = "any"
  /\ radioIdx = 2
  /\ Len(ds) = 2
  /\ calls = 2
  /\ inFlight = 1

\* C20: every record returned by a fan-out (or by the single box query)
\* contributes an operator to the response: a record whose (country code,
\* network code) has no entry in the mapping is surfaced under a synthesized
\* label in presentOperators and (where the response lists detections) in
\* detected, never dropped.
C20_UnmappedSurfaced ==
  (response.status = 200 /\ variant # "part_000")
    => \A c \in Range(lteCells) \cup Range(anyCells) :
         /\ labelOperator(c.mcc, c.mnc) \in Range(response.body.presentOperators)
         /\ "detected" \in DOMAIN response.body
              => \E e \in Range(response.body.detected) :
                   e.operator = labelOperator(c.mcc, c.mnc)

Abs(x) == IF x < 0 THEN -x ELSE x

\* the grid positions on the border of the square of ring k, as offsets
Border(k) ==
  {<<y * 80000, x * 80000>> : y \in (-k)..k, x \in {x \in (-k)..k : Abs(x) = k}}
    \cup {<<y * 80000, x * 80000>> : y \in {-k, k}, x \in (-k)..k}

\* C21: for every ring r >= 1 the fan-out visits only border boxes: the
\* offsets built for ring r are exactly the 8r distinct grid positions (x, y)
\* with max(|x|, |y|) = r, so the box in flight is at distance r from the
\* center (no box of an inner ring is there) and at a position that no
\* earlier box of the ring had.
C21_RingIsBorder ==
  (pc = "box" /\ r >= 1)
    => LET offsets == Offsets(r)
           here    == offsets[idx]
       IN  /\ Len(offsets) = 8 * r
           /\ Cardinality(Range(offsets)) = 8 * r
           /\ Range(offsets) = Border(r)
           /\ (Abs(here[1]) = r * 80000 /\ Abs(here[2]) <= r * 80000)
                \/ (Abs(here[2]) = r * 80000 /\ Abs(here[1]) <= r * 80000)
           /\ \A j \in 1..(idx - 1) : offsets[j] # here
           /\ geo.lat.kind = "num" =>
                sent.bbox = Bbox(Plus(geo.lat, offsets[idx][1]),
                                 Plus(geo.lon, offsets[idx][2]), sent.d)

\* C21 witness: the last box of ring 2 is being queried
C21_LastBoxOfRingTwo ==
  /\ pc = "box"
  /\ r = 2
  /\ idx = 16
  /\ calls = 25

\* the fan-out has stopped although the ceiling is not reached and boxes of
\* the rings are left: it stopped on the results count
StoppedOnCount ==
  /\ pc = "fanout_done"
  /\ variant \in FanoutVariants
  /\ calls < hardCap(variant)
  /\ r < maxR(variant) \/ idx < 8 * r

\* C22 as stated: the fan-out stops on one fixed results-count threshold (the
\* one applied in the rings: 100 in fanoutForRadio, 80 in ocidFanoutLTE): no
\* box query is issued once the deduplicated records have reached it, and a
\* fan-out that stops on the results count, after the center box as in a
\* later ring, has reached it.
C22_OneThreshold ==
  LET T == IF variant = "part_001" THEN 100 ELSE 80
  IN  /\ (pc = "box" /\ variant \in FanoutVariants) => Len(all) < T
      /\ StoppedOnCount => Len(all) >= T

\* C22 amended: each stage has its own fixed threshold: after the center box
\* the fan-out returns when the deduplicated records number at least 80
\* (fanoutForRadio) or 60 (ocidFanoutLTE); after a border box it returns when
\* they number at least 100 or 80.  At the threshold of its stage no further
\* box query is issued; below it, with the ceiling not reached and a box
\* left, the next box is queried.
C22_ThresholdPerStage ==
  [][ (pc = "merge" /\ variant \in FanoutVariants)
        => LET n == Len(all')
               T == IF r = 0 THEN (IF variant = "part_001" THEN 80 ELSE 60)
                    ELSE (IF variant = "part_001" THEN 100 ELSE 80)
           IN  /\ n >= T => (pc' = "fanout_done" /\ sent' = sent /\ calls' = calls)
               /\ (n < T /\ calls < hardCap(variant)
                     /\ (r < maxR(variant) \/ idx < 8 * r))
                    => (pc' = "box" /\ calls' = calls + 1)
    ]_vars

\* C22 witness: a border box is queried while the list holds at least as many
\* records as make the fan-out return after the center box
C22_RingGoesOnAboveCenterThreshold ==
  /\ pc = "box"
  /\ r >= 1
  /\ Len(all) >= (IF variant = "part_001" THEN 80 ELSE 60)

\* C23: the pipeline is deterministic: when the same request is served again
\* and every upstream call is answered as it was the first time, the second
\* run issues the same upstream calls in the same order, and once it has
\* responded it has issued all of them and sent the same status and body.
C23_SameAnswersSameCalls ==
  replay.run = 2
    => /\ Len(replay.log) <= Len(replay.first.log)
       /\ \A j \in 1..Len(replay.log) : replay.log[j] = replay.first.log[j]
       /\ Len(replay.answers) <= Len(replay.first.answers)
       /\ pc = "done" => /\ replay.log = replay.first.log
                         /\ replay.answers = replay.first.answers
                         /\ response = replay.first.response

\* C23 witness: the second run has responded after at least five upstream
\* calls, with a verdict
C23_SecondRunResponded ==
  /\ replay.run = 2
  /\ pc = "done"
  /\ Len(replay.log) >= 5
  /\ response.status = 200

\* a request's calls so far are those of the same request served alone, and
\* once it has responded it has sent what it sent when served alone
AsAlone(rq) ==
  /\ Len(rq.log) <= Len(replay.first.log)
  /\ \A j \in 1..Len(rq.log) : rq.log[j] = replay.first.log[j]
  /\ rq.locals.pc = "done" => /\ rq.log = replay.first.log
                               /\ rq.locals.response = replay.first.response

\* C24: no state is shared between requests: every fan-out starts with an
\* empty seen set, an empty result list and a call counter that counts its
\* first call only, and when the handlers of two concurrent requests are
\* interleaved at their awaits in any way, each request makes the calls and
\* gets the response of the same request served alone with the same answers.
C24_RequestsDoNotInterfere ==
  [][ /\ ( /\ pc \in {"geocode", "fanout_done"}
           /\ pc' = "box"
           /\ replay.run = 0 \/ replay'.other = replay.other )
        => (seen' = {} /\ all' = <<>> /\ calls' = 1)
      /\ (replay'.run = 2 /\ world = "concurrent")
        => /\ AsAlone([locals |-> Locals, answers |-> replay.answers, log |-> replay.log])'
           /\ AsAlone(replay.other)'
    ]_vars

\* C24 witness: both requests have been answered with a verdict, and the one
\* that finished first was suspended while the other one was querying boxes
C24_BothAnswered ==
  /\ world = "concurrent"
  /\ replay.run = 2
  /\ pc = "done"
  /\ replay.other.locals.pc = "done"
  /\ response.status = 200
  /\ replay.other.locals.response.status = 200
  /\ Len(replay.log) >= 3

\* C25: the key is present but the upstream rejects it, so that every area
\* query is answered with an error payload that is not area-too-large: the
\* request ends with status 200, connects = false and an empty networks list,
\* and the body reports no error.
C25_RejectedKeyIsSilent ==
  (world = "rejected" /\ variant \in FanoutVariants /\ pc = "done" /\ calls >= 1)
    => /\ response.status = 200
       /\ response.body.connects = FALSE
       /\ response.body.networks = <<>>
       /\ "error" \notin DOMAIN response.body

\* C25 witness: every query of the LTE fan-out and of the fan-outs of the
\* tertiary tier was answered with the error payload, and the handler has
\* responded
C25_RejectedThroughTertiary ==
  /\ world = "rejected"
  /\ variant = "part_001"
  /\ pc = "done"
  /\ phase = "any"
  /\ calls = hardCap(variant)
  /\ lastReply = "error"
  /\ response.status = 200

\* C26: whenever the detected list of a 200 response holds an LTE entry whose
\* operator is in the allowed set, connects is true and the operator is in
\* networks, also when the LTE records were found only by the LTE fan-out of
\* the tertiary tier.
C26_AllowedLteConnects ==
  (pc = "done" /\ response.status = 200 /\ variant \in FanoutVariants)
    => \A k \in DOMAIN response.body.detected :
         LET e == response.body.detected[k]
         IN  (e.radio = "LTE" /\ e.operator \in buildAllowedSet)
               => /\ response.body.connects
                  /\ e.operator \in Range(response.body.networks)

\* C27: on every path of a handler exactly one response is sent: before each
\* step of a handler no response has been sent, a step sends a response
\* exactly when the handler returns in it (never a return without a response,
\* never a response without a return), and after the return no further step
\* is taken, so that no second response is sent.
C27_ExactlyOneResponse ==
  [][ /\ pc # "done"
      /\ response = NoResponse
      /\ (pc' = "done") <=> (response' # NoResponse)
      /\ response' # NoResponse => response'.status \in {200, 400, 502}
  ]_vars

\* C27 witness: the page of tower owners could not be fetched and the handler
\* has answered with the one response of its catch
C27_ScraperFailureAnswered ==
  /\ variant = "part_000"
  /\ pc = "done"
  /\ response.status = 502
  /\ sent.kind = "page"

\* C28: provided every upstream call eventually returns or fails, every
\* request eventually sends its response, whatever the upstream answers.
C28_EventuallyResponds == <>(pc = "done" /\ response # NoResponse)

\* C28 witness: the handler has responded after the primary fan-out and the
\* fan-outs of the tertiary tier have each run to the request ceiling
C28_RespondedAfterAllCeilings ==
  /\ variant = "part_001"
  /\ world = "empty"
  /\ pc = "done"
  /\ phase = "any"
  /\ radioIdx = Len(radios)
  /\ calls = hardCap(variant)
  /\ response.status = 200

\* the FCC lookup of the request that has ended was answered with a transport
\* error, a status >= 400 or a body that is not JSON
FccLookupFailed ==
  /\ variant = "coverage"
  /\ pc = "done"
  /\ fallback = "fcc"
  /\ replay.answers # <<>>
  /\ LET a == replay.answers[Len(replay.answers)]
     IN  a.kind = "reject" \/ a.status >= 400 \/ a.shape = "text"

\* C29: in coverage.js the FCC lookup never fails the request: a status >= 400,
\* an unparseable body or a transport error of the lookup gives an empty
\* provider list, and the request ends with a 200 response that carries the
\* verdict and an explanation.
C29_FccFailureIsAbsorbed ==
  FccLookupFailed
    => /\ response.status = 200
       /\ response.body.fccProviders = <<>>
       /\ response.body.connects = FALSE
       /\ response.body.networks = <<>>
       /\ response.body.reason # <<>>
       /\ "error" \notin DOMAIN response.body

\* C29 witness: the lookup was answered with status 500 and a list of
\* providers in its body, after a fan-out that found LTE towers of operators
\* that are not allowed
C29_Status500Ignored ==
  /\ FccLookupFailed
  /\ replay.answers[Len(replay.answers)].status = 500
  /\ lteCells # <<>>
  /\ response.status = 200

\* C30: in the check flow of the page, while a check is in flight loading is
\* true and both res and err are null, and no second check is in flight with
\* it; once the check has settled loading is false and exactly one of res and
\* err is set, written by the check that was started last.
C30_CheckFlow ==
  page.shown
    => /\ Cardinality(page.fetches) <= 1
       /\ page.fetches # {}
            => /\ page.loading
               /\ page.res = Null
               /\ page.err = Null
               /\ \A f \in page.fetches : f.check = page.started
       /\ page.fetches = {}
            => /\ ~page.loading
               /\ page.started > 0
                    => /\ (page.res # Null) # (page.err # Null)
                       /\ page.settled = page.started
       /\ page.started = 0 => (page.res = Null /\ page.err = Null)

\* C30 witness: the second check of the visit has settled with the error of a
\* 502 response that names no error
C30_SecondCheckFailed ==
  /\ page.shown
  /\ page.started = 2
  /\ page.settled = 2
  /\ page.fetches = {}
  /\ page.err # Null
  /\ page.err.message = <<"Request failed: ", "5", "0", "2">>

====
